---- MODULE Spec2Model ----
(***************************************************************************)
(* Smart budgeting app: the Transaction / Account domain model             *)
(* (models.py), the Transaction Service (services/transaction_service.py), *)
(* the Repository facade (repositories/transaction_repository.py) and the  *)
(* CSV line parser (utils.py).                                             *)
(*                                                                         *)
(* Python values are modelled as tagged records (type, payload) so that    *)
(* the isinstance checks of the code are checks of the tag.  A number n of  *)
(* the model is the amount n / 100 (amounts are counted in hundredths);    *)
(* float rounding is not modelled.  A text is a sequence of characters.    *)
(***************************************************************************)
EXTENDS Integers, Sequences, FiniteSets, TLC

VARIABLES
    transactions,   \* Account.transactions: the ordered collection
    next_id,        \* Account.next_id
    result,         \* the last call: operation, arguments, exception, return value
    adds,           \* history: number of successful Account.add_transaction calls
    deleted,        \* history: ids removed by Account.delete_transaction
    csv,            \* the import in progress: lines, position, counters
    monthly_budgets, \* Budget.monthly_budgets: category -> limit
    limits,         \* history: the limit Budget.set_budget last stored per category
    adding          \* the add_transaction calls in progress, thread by thread

vars ==
    <<transactions, next_id, result, adds, deleted, csv, monthly_budgets, limits,
      adding>>

(***************************************************************************)
(* Bounds of the model.                                                    *)
(***************************************************************************)
\* cap on the number of transactions ever added to the account
MaxAdds == 3

\* cap on the number of transactions added before a single call is examined
MaxHeld == 2

\* cap on the number of lines of an imported text
MaxLines == 3

\* cap on the number of transactions added before an import is examined
MaxBefore == 1

(***************************************************************************)
(* Python values.                                                          *)
(***************************************************************************)
PyVal(t, y, m, d, n, s) ==
    [type |-> t, year |-> y, month |-> m, day |-> d, num |-> n, str |-> s]

None == PyVal("NoneType", 0, 0, 0, 0, <<>>)

\* datetime.date(y, m, d)
PyDate(y, m, d) == PyVal("date", y, m, d, 0, <<>>)

PyFloat(n) == PyVal("float", 0, 0, 0, n, <<>>)

PyInt(n) == PyVal("int", 0, 0, 0, n, <<>>)

\* True and False: the ints 1 and 0 (counted in hundredths as amounts)
PyBool(b) == PyVal("bool", 0, 0, 0, IF b THEN 100 ELSE 0, <<>>)

\* a str value: the sequence of its characters
PyStr(s) == PyVal("str", 0, 0, 0, 0, s)

\* the texts the model uses as categories, descriptions and non-values
Food == <<"F", "o", "o", "d">>

Income == <<"I", "n", "c", "o", "m", "e">>

Note == <<"x">>

DateText == <<"2", "0", "2", "3", "-", "1", "2", "-", "3", "1">>

AmountText == <<"1", "0", "0">>

\* date.__le__ : dates are ordered by (year, month, day)
DateLE(a, b) ==
    \/ a.year < b.year
    \/ a.year = b.year /\ a.month < b.month
    \/ a.year = b.year /\ a.month = b.month /\ a.day <= b.day

(***************************************************************************)
(* Exceptions: the class, the message, and the text the message quotes.    *)
(***************************************************************************)
Exc(cls, msg, text) == [msg |-> msg, text |-> text, exc |-> cls]

NoException == Exc("", "", <<>>)

InvalidTransactionError(msg) == Exc("InvalidTransactionError", msg, <<>>)

Raised(r) == r.raised.exc # ""

(***************************************************************************)
(* models.py: Transaction                                                  *)
(***************************************************************************)
\* an object of class cls with the attributes of a Transaction; id 0 is id None
Object(cls, id, date, amount, category, description) ==
    [type |-> cls, id |-> id, date |-> date, amount |-> amount,
     category |-> category, description |-> description]

NoTransaction == Object("NoneType", 0, None, None, None, None)

\* the validation rules shared by Transaction.__init__ and update_transaction
IsDate(date) == date.type = "date"

\* isinstance(amount, (int, float)): bool is a subclass of int
IsNumber(amount) == amount.type \in {"int", "float", "bool"}

IsCategory(category) == category.type = "str" /\ category.str # <<>>

\* Transaction.__init__ that only tests the category for emptiness
Transaction_any_category_type(date, amount, category, description) ==
    IF ~IsDate(date)
    THEN [raised |-> InvalidTransactionError("date must be a datetime.date instance"),
          ret |-> NoTransaction]
    ELSE IF ~IsNumber(amount)
    THEN [raised |-> InvalidTransactionError("amount must be a number"),
          ret |-> NoTransaction]
    ELSE IF category.type \in {"NoneType", "str"} /\ category.str = <<>>
    THEN [raised |-> InvalidTransactionError("category must be a non-empty string"),
          ret |-> NoTransaction]
    ELSE [raised |-> NoException,
          ret |-> Object("Transaction", 0, date, amount, category, description)]

\* Transaction.__init__: the exception raised, or the new object (id None)
Transaction(date, amount, category, description) ==
    IF ~IsDate(date)
    THEN [raised |-> InvalidTransactionError("date must be a datetime.date instance"),
          ret |-> NoTransaction]
    ELSE IF ~IsNumber(amount)
    THEN [raised |-> InvalidTransactionError("amount must be a number"),
          ret |-> NoTransaction]
    ELSE IF ~IsCategory(category)
    THEN [raised |-> InvalidTransactionError("category must be a non-empty string"),
          ret |-> NoTransaction]
    ELSE [raised |-> NoException,
          ret |-> Object("Transaction", 0, date, amount, category, description)]

(***************************************************************************)
(* models.py: Account.  An account value is the pair of its two fields.    *)
(***************************************************************************)
Account(txns, nid) == [transactions |-> txns, next_id |-> nid]

\* add_transaction that forgets to advance the counter
add_transaction_no_increment(account, transaction) ==
    IF transaction.type # "Transaction"
    THEN [raised |-> InvalidTransactionError("Must add a Transaction instance"),
          account |-> account]
    ELSE [raised |-> NoException,
          account |-> Account(
              Append(account.transactions,
                     [transaction EXCEPT !.id = account.next_id]),
              account.next_id)]

\* add_transaction that numbers a transaction by the size of the collection
add_transaction_id_from_len(account, transaction) ==
    IF transaction.type # "Transaction"
    THEN [raised |-> InvalidTransactionError("Must add a Transaction instance"),
          account |-> account]
    ELSE [raised |-> NoException,
          account |-> Account(
              Append(account.transactions,
                     [transaction EXCEPT !.id = Len(account.transactions) + 1]),
              account.next_id + 1)]

\* add_transaction without "transaction.id = self.next_id": the transaction
\* keeps the id it came with
add_transaction_keeps_id(account, transaction) ==
    IF transaction.type # "Transaction"
    THEN [raised |-> InvalidTransactionError("Must add a Transaction instance"),
          account |-> account]
    ELSE [raised |-> NoException,
          account |-> Account(Append(account.transactions, transaction),
                              account.next_id + 1)]

\* Account.add_transaction: the new account, or the exception
add_transaction(account, transaction) ==
    IF transaction.type # "Transaction"
    THEN [raised |-> InvalidTransactionError("Must add a Transaction instance"),
          account |-> account]
    ELSE [raised |-> NoException,
          account |-> Account(
              Append(account.transactions,
                     [transaction EXCEPT !.id = account.next_id]),
              account.next_id + 1)]

\* position of the first transaction with this id, 0 when there is none
RECURSIVE IndexOfId(_, _, _)
IndexOfId(txns, id, i) ==
    IF i > Len(txns) THEN 0
    ELSE IF txns[i].id = id THEN i
    ELSE IndexOfId(txns, id, i + 1)

\* get_transaction_by_id that takes the id for the position in the list
get_transaction_by_id_at_position(account, id) ==
    IF id \in 1..Len(account.transactions)
    THEN account.transactions[id] ELSE NoTransaction

\* Account.get_transaction_by_id
get_transaction_by_id(account, id) ==
    LET i == IndexOfId(account.transactions, id, 1)
    IN  IF i = 0 THEN NoTransaction ELSE account.transactions[i]

\* Account.get_balance: sum(t.amount for t in self.transactions)
RECURSIVE SumAmounts(_)
SumAmounts(txns) ==
    IF txns = <<>> THEN 0
    ELSE Head(txns).amount.num + SumAmounts(Tail(txns))

\* get_balance that leaves out the most recent transaction
get_balance_skip_last(account) ==
    SumAmounts(SubSeq(account.transactions, 1, Len(account.transactions) - 1))

get_balance(account) == SumAmounts(account.transactions)

\* list.remove(x): drop the element at position i
RemoveAt(s, i) == SubSeq(s, 1, i - 1) \o SubSeq(s, i + 1, Len(s))

\* delete_transaction that reports an unknown id without raising
\* (the variant documented in models_commented.py)
delete_transaction_silent(account, id) ==
    LET i == IndexOfId(account.transactions, id, 1)
    IN  [raised |-> NoException,
         account |-> IF i = 0 THEN account
                     ELSE Account(RemoveAt(account.transactions, i), account.next_id)]

\* delete_transaction that hands the freed id back to the counter
delete_transaction_reuse(account, id) ==
    LET i == IndexOfId(account.transactions, id, 1)
    IN  IF i = 0
        THEN [raised |-> InvalidTransactionError("Transaction with id not found"),
              account |-> account]
        ELSE [raised |-> NoException,
              account |-> Account(RemoveAt(account.transactions, i), id)]

\* delete_transaction that fills the hole with the last transaction
delete_transaction_swap_remove(account, id) ==
    LET i == IndexOfId(account.transactions, id, 1)
        n == Len(account.transactions)
    IN  IF i = 0
        THEN [raised |-> InvalidTransactionError("Transaction with id not found"),
              account |-> account]
        ELSE [raised |-> NoException,
              account |-> Account(SubSeq([account.transactions EXCEPT
                                             ![i] = account.transactions[n]],
                                         1, n - 1),
                                  account.next_id)]

\* Account.delete_transaction
delete_transaction(account, id) ==
    LET i == IndexOfId(account.transactions, id, 1)
    IN  IF i = 0
        THEN [raised |-> InvalidTransactionError("Transaction with id not found"),
              account |-> account]
        ELSE [raised |-> NoException,
              account |-> Account(RemoveAt(account.transactions, i), account.next_id)]

\* update_transaction that tests "if amount:" where the code tests
\* "if amount is not None:", for every argument
update_transaction_truthy(account, id, date, amount, category, description) ==
    LET i  == IndexOfId(account.transactions, id, 1)
        given(x) == x # None /\ ~(x.type = "str" /\ x.str = <<>>)
                             /\ ~(x.type \in {"int", "float"} /\ x.num = 0)
        t0 == account.transactions[i]
        t1 == IF given(date) /\ IsDate(date) THEN [t0 EXCEPT !.date = date] ELSE t0
        t2 == IF given(amount) /\ IsNumber(amount) THEN [t1 EXCEPT !.amount = amount] ELSE t1
        t3 == IF given(category) /\ IsCategory(category)
              THEN [t2 EXCEPT !.category = category] ELSE t2
        t4 == IF given(description) THEN [t3 EXCEPT !.description = description] ELSE t3
        put(t) == Account([account.transactions EXCEPT ![i] = t], account.next_id)
    IN  IF i = 0
        THEN [raised |-> InvalidTransactionError("Transaction with id not found"),
              account |-> account]
        ELSE IF given(date) /\ ~IsDate(date)
        THEN [raised |-> InvalidTransactionError("date must be a datetime.date instance"),
              account |-> put(t0)]
        ELSE IF given(amount) /\ ~IsNumber(amount)
        THEN [raised |-> InvalidTransactionError("amount must be a number"),
              account |-> put(t1)]
        ELSE IF given(category) /\ ~IsCategory(category)
        THEN [raised |-> InvalidTransactionError("category must be a non-empty string"),
              account |-> put(t2)]
        ELSE [raised |-> NoException, account |-> put(t4)]

\* update_transaction that assigns each provided field before it checks it
update_transaction_assigns_first(account, id, date, amount, category, description) ==
    LET i  == IndexOfId(account.transactions, id, 1)
        t0 == account.transactions[i]
        t1 == IF date # None THEN [t0 EXCEPT !.date = date] ELSE t0
        t2 == IF amount # None THEN [t1 EXCEPT !.amount = amount] ELSE t1
        t3 == IF category # None THEN [t2 EXCEPT !.category = category] ELSE t2
        t4 == IF description # None THEN [t3 EXCEPT !.description = description] ELSE t3
        put(t) == Account([account.transactions EXCEPT ![i] = t], account.next_id)
    IN  IF i = 0
        THEN [raised |-> InvalidTransactionError("Transaction with id not found"),
              account |-> account]
        ELSE IF date # None /\ ~IsDate(date)
        THEN [raised |-> InvalidTransactionError("date must be a datetime.date instance"),
              account |-> put(t1)]
        ELSE IF amount # None /\ ~IsNumber(amount)
        THEN [raised |-> InvalidTransactionError("amount must be a number"),
              account |-> put(t2)]
        ELSE IF category # None /\ ~IsCategory(category)
        THEN [raised |-> InvalidTransactionError("category must be a non-empty string"),
              account |-> put(t3)]
        ELSE [raised |-> NoException, account |-> put(t4)]

\* Account.update_transaction: the fields are checked and assigned one after
\* the other, so an exception leaves the assignments made before it in place
update_transaction(account, id, date, amount, category, description) ==
    LET i  == IndexOfId(account.transactions, id, 1)
        t0 == account.transactions[i]
        t1 == IF date # None /\ IsDate(date) THEN [t0 EXCEPT !.date = date] ELSE t0
        t2 == IF amount # None /\ IsNumber(amount) THEN [t1 EXCEPT !.amount = amount] ELSE t1
        t3 == IF category # None /\ IsCategory(category)
              THEN [t2 EXCEPT !.category = category] ELSE t2
        t4 == IF description # None THEN [t3 EXCEPT !.description = description] ELSE t3
        put(t) == Account([account.transactions EXCEPT ![i] = t], account.next_id)
    IN  IF i = 0
        THEN [raised |-> InvalidTransactionError("Transaction with id not found"),
              account |-> account]
        ELSE IF date # None /\ ~IsDate(date)
        THEN [raised |-> InvalidTransactionError("date must be a datetime.date instance"),
              account |-> put(t0)]
        ELSE IF amount # None /\ ~IsNumber(amount)
        THEN [raised |-> InvalidTransactionError("amount must be a number"),
              account |-> put(t1)]
        ELSE IF category # None /\ ~IsCategory(category)
        THEN [raised |-> InvalidTransactionError("category must be a non-empty string"),
              account |-> put(t2)]
        ELSE [raised |-> NoException, account |-> put(t4)]

(***************************************************************************)
(* utils.py: parse_csv_line.  The regular expression is matched from the   *)
(* start of the line, as re.match does, position by position.              *)
(***************************************************************************)
\* Body(local), the local computed once: a local of the code is assigned once
\* and read many times
With(local, Body(_)) == CHOOSE r \in {Body(v) : v \in {local}} : TRUE

Digits == <<"0", "1", "2", "3", "4", "5", "6", "7", "8", "9">>

IsDigit(c) == c \in {Digits[k] : k \in 1..10}

\* int(c) for a digit c
DigitValue(c) == (CHOOSE k \in 1..10 : Digits[k] = c) - 1

\* the characters \s matches and str.strip() removes
IsSpace(c) == c \in {" ", "\t", "\n", "\r"}

\* the character at position i, "" past the end of the line
At(line, i) == IF i \in 1..Len(line) THEN line[i] ELSE ""

\* the position after the longest run of \s from position i
RECURSIVE SkipSpaces(_, _)
SkipSpaces(line, i) ==
    IF IsSpace(At(line, i)) THEN SkipSpaces(line, i + 1) ELSE i

\* the position before the longest run of \s that ends at position i
RECURSIVE SkipSpacesBack(_, _)
SkipSpacesBack(line, i) ==
    IF IsSpace(At(line, i)) THEN SkipSpacesBack(line, i - 1) ELSE i

\* the position after the longest run of \d from position i
RECURSIVE SkipDigits(_, _)
SkipDigits(line, i) ==
    IF IsDigit(At(line, i)) THEN SkipDigits(line, i + 1) ELSE i

\* the position of the first "," at or after position i, Len + 1 if none
RECURSIVE SkipToComma(_, _)
SkipToComma(line, i) ==
    IF i > Len(line) \/ line[i] = "," THEN i ELSE SkipToComma(line, i + 1)

\* the position of the first "\n" at or after position i, Len + 1 if none
RECURSIVE SkipToNewline(_, _)
SkipToNewline(text, i) ==
    IF i > Len(text) \/ text[i] = "\n" THEN i ELSE SkipToNewline(text, i + 1)

\* int(text[:n]) for a run of digits
RECURSIVE DecimalPrefix(_, _)
DecimalPrefix(digits, n) ==
    IF n = 0 THEN 0
    ELSE 10 * DecimalPrefix(digits, n - 1) + DigitValue(digits[n])

\* int(text) for a run of digits
DecimalValue(digits) ==
    With(digits, LAMBDA text : DecimalPrefix(text, Len(text)))

\* str.strip()
strip(text) ==
    With(text, LAMBDA t :
    With(SkipSpaces(t, 1), LAMBDA from :
    With(SkipSpacesBack(t, Len(t)), LAMBDA to :
        SubSeq(t, from, to))))

\* the lines of the text from position i
RECURSIVE LinesFrom(_, _)
LinesFrom(text, i) ==
    IF i > Len(text) THEN <<>>
    ELSE With(SkipToNewline(text, i), LAMBDA k :
             <<SubSeq(text, i, k - 1)>> \o LinesFrom(text, k + 1))

\* splitlines that leaves the blank lines out
splitlines_skip_blank(text) ==
    With(text, LAMBDA t : SelectSeq(LinesFrom(t, 1), LAMBDA line : line # <<>>))

\* str.splitlines()
splitlines(text) == With(text, LAMBDA t : LinesFrom(t, 1))

\* (?P<date>\d{4}-\d{2}-\d{2}|\d{1,2}/\d{1,2}/\d{4}) at position i:
\* the position after the date, 0 when neither form matches
DateEnd(line, i) ==
    With(SkipDigits(line, i), LAMBDA y :
    With(SkipDigits(line, y + 1), LAMBDA m :
    With(SkipDigits(line, m + 1), LAMBDA d :
        IF /\ y - i >= 4 /\ At(line, i + 4) = "-"
           /\ SkipDigits(line, i + 5) - (i + 5) >= 2 /\ At(line, i + 7) = "-"
           /\ SkipDigits(line, i + 8) - (i + 8) >= 2
        THEN i + 10
        ELSE IF /\ y - i \in {1, 2} /\ At(line, y) = "/"
                /\ m - (y + 1) \in {1, 2} /\ At(line, m) = "/"
                /\ d - (m + 1) >= 4
        THEN m + 5
        ELSE 0)))

\* (?P<amount>-?\d+(?:\.\d+)?) at position i: the position after it, 0 if none
AmountEnd(line, i) ==
    With(IF At(line, i) = "-" THEN i + 1 ELSE i, LAMBDA j :
    With(SkipDigits(line, j), LAMBDA k :
    With(SkipDigits(line, k + 1), LAMBDA f :
        IF k = j THEN 0
        ELSE IF At(line, k) = "." /\ f > k + 1 THEN f
        ELSE k)))

\* \s*,\s* at position i: the position after it, 0 when there is no comma
SeparatorEnd(line, i) ==
    With(SkipSpaces(line, i), LAMBDA c :
        IF At(line, c) = "," THEN SkipSpaces(line, c + 1) ELSE 0)

\* the groups of the match, as positions: [from, to) of date, amount and
\* category and the start of the description (0 when the group is absent)
Match(line) ==
    With(SkipSpaces(line, 1), LAMBDA d0 :
    With(DateEnd(line, d0), LAMBDA d1 :
    With(IF d1 = 0 THEN 0 ELSE SeparatorEnd(line, d1), LAMBDA a0 :
    With(IF a0 = 0 THEN 0 ELSE AmountEnd(line, a0), LAMBDA a1 :
    With(IF a1 = 0 THEN 0 ELSE SkipSpaces(line, a1), LAMBDA sep :
    With(SkipSpaces(line, sep + 1), LAMBDA s1 :
    \* after the second comma \s* takes every space, and gives the last one
    \* back when [^,]+ would otherwise have nothing to match
    With(IF s1 <= Len(line) /\ line[s1] # "," THEN s1
         ELSE IF s1 > sep + 1 THEN s1 - 1 ELSE 0, LAMBDA c0 :
    With(IF c0 = 0 THEN 0 ELSE SkipToComma(line, c0 + 1), LAMBDA c1 :
        IF a1 = 0 \/ At(line, sep) # "," \/ c0 = 0
        THEN [date |-> <<0, 0>>, amount |-> <<0, 0>>, category |-> <<0, 0>>,
              description |-> 0, matched |-> FALSE]
        ELSE [date |-> <<d0, d1>>, amount |-> <<a0, a1>>, category |-> <<c0, c1>>,
              description |-> IF At(line, c1) = ","
                              THEN SkipSpaces(line, c1 + 1) ELSE 0,
              matched |-> TRUE]))))))))

Group(line, span) == SubSeq(line, span[1], span[2] - 1)

\* the number of days of a month of the proleptic Gregorian calendar
DaysInMonth(year, month) ==
    IF month \in {4, 6, 9, 11} THEN 30
    ELSE IF month # 2 THEN 31
    ELSE IF year % 4 = 0 /\ (year % 100 # 0 \/ year % 400 = 0) THEN 29
    ELSE 28

\* datetime.datetime.strptime(date_str, "%m/%d/%Y" or "%Y-%m-%d").date():
\* the year, month and day fields of the matched text
DateFields(date_str) ==
    With(SkipDigits(date_str, 1), LAMBDA a :
    With(SkipDigits(date_str, a + 1), LAMBDA b :
    With(DecimalValue(SubSeq(date_str, 1, a - 1)), LAMBDA f1 :
    With(DecimalValue(SubSeq(date_str, a + 1, b - 1)), LAMBDA f2 :
    With(DecimalValue(SubSeq(date_str, b + 1, Len(date_str))), LAMBDA f3 :
        IF \E k \in 1..Len(date_str) : date_str[k] = "/"
        THEN [year |-> f3, month |-> f1, day |-> f2]
        ELSE [year |-> f1, month |-> f2, day |-> f3])))))

\* strptime raises ValueError for a date that is not on the calendar
OnCalendar(f) ==
    /\ f.year \in 1..9999
    /\ f.month \in 1..12
    /\ f.day \in 1..DaysInMonth(f.year, f.month)

\* 10 ^ n
RECURSIVE Pow10(_)
Pow10(n) == IF n = 0 THEN 1 ELSE 10 * Pow10(n - 1)

\* float(text) in hundredths, for a matched amount of at most two decimals
ParseFloat(text) ==
    With(IF At(text, 1) = "-" THEN 2 ELSE 1, LAMBDA j :
    With(SkipDigits(text, j), LAMBDA k :
    With(SubSeq(text, k + 1, Len(text)), LAMBDA frac :
    With(100 * DecimalValue(SubSeq(text, j, k - 1))
         + DecimalValue(frac) * Pow10(2 - Len(frac)), LAMBDA abs :
        IF j = 2 THEN 0 - abs ELSE abs))))

\* parse_csv_line that returns the category as matched, spaces included
parse_csv_line_unstripped(line) ==
    With(line, LAMBDA l :
    With(Match(l), LAMBDA m :
        IF ~m.matched
        THEN [raised |-> Exc("ValueError", "Line does not match expected format: ", l),
              date |-> None, amount |-> None, category |-> None, description |-> None]
        ELSE
    With(Group(l, m.date), LAMBDA date_str :
    With(DateFields(date_str), LAMBDA f :
        IF ~OnCalendar(f)
        THEN [raised |-> Exc("ValueError", "time data does not match format", date_str),
              date |-> None, amount |-> None, category |-> None, description |-> None]
        ELSE [raised |-> NoException,
              date |-> PyDate(f.year, f.month, f.day),
              amount |-> PyFloat(ParseFloat(Group(l, m.amount))),
              category |-> PyStr(Group(l, m.category)),
              description |->
                  PyStr(IF m.description = 0 THEN <<>>
                         ELSE SubSeq(l, m.description, Len(l)))]))))

\* parse_csv_line(line): the exception, or the 4-tuple
parse_csv_line(line) ==
    With(line, LAMBDA l :
    With(Match(l), LAMBDA m :
        IF ~m.matched
        THEN [raised |-> Exc("ValueError", "Line does not match expected format: ", l),
              date |-> None, amount |-> None, category |-> None, description |-> None]
        ELSE
    With(Group(l, m.date), LAMBDA date_str :
    With(DateFields(date_str), LAMBDA f :
        IF ~OnCalendar(f)
        THEN [raised |-> Exc("ValueError", "time data does not match format", date_str),
              date |-> None, amount |-> None, category |-> None, description |-> None]
        ELSE [raised |-> NoException,
              date |-> PyDate(f.year, f.month, f.day),
              amount |-> PyFloat(ParseFloat(Group(l, m.amount))),
              category |-> PyStr(strip(Group(l, m.category))),
              description |->
                  PyStr(IF m.description = 0 THEN <<>>
                         ELSE SubSeq(l, m.description, Len(l)))]))))

(***************************************************************************)
(* models.py: Account.list_transactions; transaction_service.py: the       *)
(* monthly aggregations.                                                   *)
(***************************************************************************)
ValueError(msg) == Exc("ValueError", msg, <<>>)

\* bool(x) for the argument values list_transactions tests with "if x:"
Truthy(x) ==
    CASE x.type = "NoneType" -> FALSE
      [] x.type = "str" -> x.str # <<>>
      [] x.type \in {"int", "float", "bool"} -> x.num # 0
      [] OTHER -> TRUE

\* Account.list_transactions(start_date, end_date, category): each filter is
\* applied when its argument is truthy; both date bounds are inclusive
list_transactions(acct, start_date, end_date, category) ==
    LET r0 == acct.transactions
        r1 == IF Truthy(start_date)
              THEN SelectSeq(r0, LAMBDA t : DateLE(start_date, t.date)) ELSE r0
        r2 == IF Truthy(end_date)
              THEN SelectSeq(r1, LAMBDA t : DateLE(t.date, end_date)) ELSE r1
        r3 == IF Truthy(category)
              THEN SelectSeq(r2, LAMBDA t : t.category = category) ELSE r2
    IN  r3

\* datetime.date(year, month, 1) is defined for these arguments only
ValidYearMonth(year, month) == year \in 1..9999 /\ month \in 1..12

\* the two dates every monthly aggregation passes to list_transactions:
\* the 1st of the month and the 1st of the month after it
start_month(year, month) == PyDate(year, month, 1)

\* end_month that stays in the same year after December
end_month_same_year(year, month) ==
    IF month = 12 THEN PyDate(year, 1, 1) ELSE PyDate(year, month + 1, 1)

end_month(year, month) ==
    IF month = 12 THEN PyDate(year + 1, 1, 1) ELSE PyDate(year, month + 1, 1)

\* the year that is kept when it is given without a month
EffectiveYear_keeps_given(year, month, today) ==
    IF year = None THEN today.year ELSE year.num

\* "if year is None or month is None: year, month = today.year, today.month"
EffectiveYear(year, month, today) ==
    IF year = None \/ month = None THEN today.year ELSE year.num

EffectiveMonth(year, month, today) ==
    IF year = None \/ month = None THEN today.month ELSE month.num

monthly_transactions(acct, year, month, today) ==
    LET y == EffectiveYear(year, month, today)
        m == EffectiveMonth(year, month, today)
    IN  list_transactions(acct, start_month(y, m), end_month(y, m), None)

RECURSIVE SumSpending(_)
SumSpending(txns) ==
    IF txns = <<>> THEN 0
    ELSE (IF Head(txns).amount.num < 0 THEN 0 - Head(txns).amount.num ELSE 0)
         + SumSpending(Tail(txns))

RECURSIVE SumIncome(_)
SumIncome(txns) ==
    IF txns = <<>> THEN 0
    ELSE (IF Head(txns).amount.num > 0 THEN Head(txns).amount.num ELSE 0)
         + SumIncome(Tail(txns))

\* a dict is the sequence of its (key, value) items in insertion order
DictKeys(dict) == {dict[i].key : i \in 1..Len(dict)}

\* dict.get(key, default)
DictGet(dict, key, default) ==
    IF key \in DictKeys(dict)
    THEN dict[CHOOSE i \in 1..Len(dict) : dict[i].key = key].value
    ELSE default

\* dict[key] = value
DictSet(dict, key, value) ==
    IF key \in DictKeys(dict)
    THEN [i \in 1..Len(dict) |->
             IF dict[i].key = key THEN [key |-> key, value |-> value] ELSE dict[i]]
    ELSE Append(dict, [key |-> key, value |-> value])

\* category_totals[t.category] = category_totals.get(t.category, 0) + t.amount
RECURSIVE CategoryTotalsLoop(_, _)
CategoryTotalsLoop(txns, category_totals) ==
    IF txns = <<>> THEN category_totals
    ELSE LET t == Head(txns)
         IN  CategoryTotalsLoop(
                 Tail(txns),
                 DictSet(category_totals, t.category.str,
                         DictGet(category_totals, t.category.str, 0) + t.amount.num))

\* TransactionService.get_monthly_spending(year, month)
get_monthly_spending(acct, year, month, today) ==
    IF ~ValidYearMonth(EffectiveYear(year, month, today),
                       EffectiveMonth(year, month, today))
    THEN [raised |-> ValueError("month must be in 1..12"), ret |-> 0]
    ELSE [raised |-> NoException,
          ret |-> SumSpending(monthly_transactions(acct, year, month, today))]

\* get_monthly_income that sums the income of every month
get_monthly_income_all_months(acct, year, month, today) ==
    [raised |-> NoException, ret |-> SumIncome(acct.transactions)]

\* TransactionService.get_monthly_income(year, month)
get_monthly_income(acct, year, month, today) ==
    IF ~ValidYearMonth(EffectiveYear(year, month, today),
                       EffectiveMonth(year, month, today))
    THEN [raised |-> ValueError("month must be in 1..12"), ret |-> 0]
    ELSE [raised |-> NoException,
          ret |-> SumIncome(monthly_transactions(acct, year, month, today))]

\* TransactionService.get_category_totals(year, month)
get_category_totals(acct, year, month, today) ==
    IF ~ValidYearMonth(EffectiveYear(year, month, today),
                       EffectiveMonth(year, month, today))
    THEN [raised |-> ValueError("month must be in 1..12"), ret |-> <<>>]
    ELSE [raised |-> NoException,
          ret |-> CategoryTotalsLoop(
                      monthly_transactions(acct, year, month, today), <<>>)]

(***************************************************************************)
(* models.py: Budget.  A budget value is its monthly_budgets dict.         *)
(***************************************************************************)
\* TypeError: "'<' not supported between instances of 'str' and 'int'"
TypeError(msg) == Exc("TypeError", msg, <<>>)

\* set_budget that stores the limit before it tests the sign
set_budget_stores_first(budget, category, amount) ==
    IF ~IsNumber(amount)
    THEN [raised |-> TypeError("'<' not supported"), budget |-> budget]
    ELSE IF amount.num < 0
    THEN [raised |-> ValueError("Budget amount cannot be negative"),
          budget |-> DictSet(budget, category.str, amount.num)]
    ELSE [raised |-> NoException,
          budget |-> DictSet(budget, category.str, amount.num)]

\* Budget.set_budget(category, amount)
set_budget(budget, category, amount) ==
    IF ~IsNumber(amount)
    THEN [raised |-> TypeError("'<' not supported"), budget |-> budget]
    ELSE IF amount.num < 0
    THEN [raised |-> ValueError("Budget amount cannot be negative"),
          budget |-> budget]
    ELSE [raised |-> NoException,
          budget |-> DictSet(budget, category.str, amount.num)]

\* Budget.get_budget(category)
get_budget(budget, category) == DictGet(budget, category.str, 0)

\* get_remaining that never reports less than nothing left
get_remaining_clamped(budget, category, spent) ==
    IF get_budget(budget, category) - spent.num < 0 THEN 0
    ELSE get_budget(budget, category) - spent.num

\* Budget.get_remaining(category, spent)
get_remaining(budget, category, spent) ==
    get_budget(budget, category) - spent.num

(***************************************************************************)
(* services/transaction_service.py: the queries built on the category      *)
(* totals.                                                                 *)
(***************************************************************************)
\* {k: abs(v) for k, v in category_totals.items() if v < 0}
NegativeItems(category_totals) ==
    With(SelectSeq(category_totals, LAMBDA item : item.value < 0), LAMBDA items :
        IF items = <<>> THEN <<>>
        ELSE [i \in 1..Len(items) |->
                 [key |-> items[i].key, value |-> 0 - items[i].value]])

\* get_category_spending that keeps the categories whose total is zero
get_category_spending_keeps_zero(acct, year, month, today) ==
    With(get_category_totals(acct, year, month, today), LAMBDA r :
        IF r.raised # NoException THEN r
        ELSE [raised |-> NoException,
              ret |-> With(SelectSeq(r.ret, LAMBDA item : item.value <= 0),
                           LAMBDA items :
                           IF items = <<>> THEN <<>>
                           ELSE [i \in 1..Len(items) |->
                                    [key |-> items[i].key,
                                     value |-> 0 - items[i].value]])])

\* TransactionService.get_category_spending(year, month)
get_category_spending(acct, year, month, today) ==
    With(get_category_totals(acct, year, month, today), LAMBDA r :
        IF r.raised # NoException THEN r
        ELSE [raised |-> NoException, ret |-> NegativeItems(r.ret)])

\* a Budget object, as the Service holds it; the Service holds None without one
BudgetObject(monthly) == [monthly_budgets |-> monthly, type |-> "Budget"]

\* abs(x)
abs(x) == IF x < 0 THEN 0 - x ELSE x

\* TransactionService.get_budget_status(category): None without a budget,
\* else the dict of budget, spent and remaining
get_budget_status(acct, budget, category, today) ==
    IF budget.type = "NoneType" THEN [raised |-> NoException, ret |-> None]
    ELSE With(get_category_totals(acct, None, None, today), LAMBDA r :
         With(abs(DictGet(r.ret, category.str, 0)), LAMBDA spent :
         With(get_budget(budget.monthly_budgets, category), LAMBDA budget_amount :
             [raised |-> NoException,
              ret |-> [type |-> "dict", budget |-> budget_amount, spent |-> spent,
                       remaining |-> budget_amount - spent]])))

(***************************************************************************)
(* services/transaction_service.py and repositories/                       *)
(* transaction_repository.py: the mutating entry points.                   *)
(***************************************************************************)
\* create_transaction that takes the id before it validates the fields
create_transaction_takes_id_first(account, date, amount, category, description) ==
    LET c == Transaction(date, amount, category, description)
        a == add_transaction(account, c.ret)
    IN  IF c.raised # NoException
        THEN [raised |-> c.raised,
              ret |-> NoTransaction,
              account |-> Account(account.transactions, account.next_id + 1)]
        ELSE [raised |-> a.raised,
              ret |-> a.account.transactions[Len(a.account.transactions)],
              account |-> a.account]

\* create_transaction that reports an invalid field by returning None
create_transaction_returns_none(account, date, amount, category, description) ==
    LET c == Transaction(date, amount, category, description)
        a == add_transaction(account, c.ret)
    IN  IF c.raised # NoException
        THEN [raised |-> NoException, ret |-> NoTransaction, account |-> account]
        ELSE [raised |-> a.raised,
              ret |-> IF a.raised # NoException THEN NoTransaction
                      ELSE a.account.transactions[Len(a.account.transactions)],
              account |-> a.account]

\* TransactionService.create_transaction: the exception of the constructor
\* propagates before the account is touched
create_transaction(account, date, amount, category, description) ==
    LET c == Transaction(date, amount, category, description)
        a == add_transaction(account, c.ret)
    IN  IF c.raised # NoException
        THEN [raised |-> c.raised, ret |-> NoTransaction, account |-> account]
        ELSE [raised |-> a.raised,
              ret |-> IF a.raised # NoException THEN NoTransaction
                      ELSE a.account.transactions[Len(a.account.transactions)],
              account |-> a.account]

\* TransactionRepository.save
save(account, transaction) ==
    LET a == add_transaction(account, transaction)
    IN  [raised |-> a.raised,
         ret |-> IF a.raised # NoException THEN NoTransaction
                 ELSE a.account.transactions[Len(a.account.transactions)],
         account |-> a.account]

\* update that answers True whether or not the account raised
update_always_true(account, transaction_id, date, amount, category, description) ==
    With(update_transaction(account, transaction_id, date, amount, category,
                            description), LAMBDA r :
        [raised |-> NoException, ret |-> PyBool(TRUE), account |-> r.account])

\* TransactionRepository.update(transaction_id, **updates):
\* except InvalidTransactionError: return False
update(account, transaction_id, date, amount, category, description) ==
    With(update_transaction(account, transaction_id, date, amount, category,
                            description), LAMBDA r :
        IF r.raised.exc = "InvalidTransactionError"
        THEN [raised |-> NoException, ret |-> PyBool(FALSE), account |-> r.account]
        ELSE IF r.raised # NoException
        THEN [raised |-> r.raised, ret |-> None, account |-> r.account]
        ELSE [raised |-> NoException, ret |-> PyBool(TRUE), account |-> r.account])

\* TransactionRepository.delete(transaction_id):
\* except InvalidTransactionError: return False
delete(account, transaction_id) ==
    With(delete_transaction(account, transaction_id), LAMBDA r :
        IF r.raised.exc = "InvalidTransactionError"
        THEN [raised |-> NoException, ret |-> PyBool(FALSE), account |-> r.account]
        ELSE IF r.raised # NoException
        THEN [raised |-> r.raised, ret |-> None, account |-> r.account]
        ELSE [raised |-> NoException, ret |-> PyBool(TRUE), account |-> r.account])

(***************************************************************************)
(* The calls the model makes.                                              *)
(***************************************************************************)
Args(id, date, amount, category, description) ==
    [id |-> id, date |-> date, amount |-> amount, category |-> category,
     description |-> description]

NoArgs == Args(0, None, None, None, None)

Call(op, args, raised, ret) == [raised |-> raised, ret |-> ret, op |-> op, args |-> args]

\* no CSV import is running
NoImport ==
    [i |-> 0, pc |-> "idle", lines |-> <<>>, imported |-> 0, errors |-> <<>>,
     first_id |-> 1, held |-> <<>>]

account == Account(transactions, next_id)

\* the categories a budget is set for, and the history before any set_budget
BudgetCategories == {Food, Income}

NoLimits ==
    [c \in BudgetCategories |-> [amount |-> 0, set |-> FALSE, overwritten |-> FALSE]]

\* the threads that call add_transaction
Threads == {1, 2}

\* no add in progress; atomic: the adds exclude one another
NoAdding ==
    [transaction |-> [t \in Threads |-> NoTransaction],
     pc |-> [t \in Threads |-> "idle"],
     atomic |-> TRUE,
     loaded |-> [t \in Threads |-> 0]]

Dec31 == PyDate(2023, 12, 31)

Jan01 == PyDate(2024, 1, 1)

\* the argument values of create_transaction and save
NewDates == {Dec31, PyStr(DateText)}

NewAmounts == {PyFloat(-5), PyStr(AmountText)}

NewCategories == {PyStr(Income), PyStr(<<>>)}

NewDescriptions == {PyStr(Note)}

SavedObjects ==
    {Object("Transaction", 0, Jan01, PyFloat(10), PyStr(Food), PyStr(<<>>)),
     Object("dict", 0, Jan01, PyFloat(10), PyStr(Food), PyStr(<<>>))}

\* the argument values of update_transaction; None is an omitted argument
Ids == 1..(MaxAdds + 1)

UpdDates == {None, Jan01}

UpdAmounts == {None, PyFloat(0), PyStr(AmountText)}

UpdCategories == {None}

UpdDescriptions == {None}

TypeOK ==
    /\ next_id \in 1..(MaxAdds + 1)
    /\ Len(transactions) <= MaxAdds
    /\ adds \in 0..MaxAdds
    /\ deleted \subseteq Ids

Init ==
    /\ transactions = <<>>
    /\ next_id = 1
    /\ result = Call("init", NoArgs, NoException, NoTransaction)
    /\ adds = 0
    /\ deleted = {}
    /\ csv = NoImport
    /\ monthly_budgets = <<>>
    /\ limits = NoLimits
    /\ adding = NoAdding

\* service.create_transaction(date, amount, category, description)
CreateTransaction(date, amount, category, description) ==
    LET r == create_transaction(account, date, amount, category, description)
    IN  /\ next_id <= MaxAdds
        /\ csv.pc # "loop"
        /\ transactions' = r.account.transactions
        /\ next_id' = r.account.next_id
        /\ result' = Call("create_transaction",
                          Args(0, date, amount, category, description), r.raised, r.ret)
        /\ adds' = IF r.raised = NoException THEN adds + 1 ELSE adds
        /\ UNCHANGED <<deleted, csv, monthly_budgets,
                     limits, adding>>

\* repository.save(transaction)
Save(transaction) ==
    LET r == save(account, transaction)
    IN  /\ next_id <= MaxAdds
        /\ csv.pc # "loop"
        /\ transactions' = r.account.transactions
        /\ next_id' = r.account.next_id
        /\ result' = Call("save",
                          Args(0, transaction.date, transaction.amount,
                               transaction.category, transaction.description),
                          r.raised, r.ret)
        /\ adds' = IF r.raised = NoException THEN adds + 1 ELSE adds
        /\ UNCHANGED <<deleted, csv, monthly_budgets,
                     limits, adding>>

\* service.update_transaction(id, date=..., amount=..., category=..., description=...)
UpdateTransaction(id, date, amount, category, description) ==
    LET r == update_transaction(account, id, date, amount, category, description)
    IN  /\ csv.pc # "loop"
        /\ transactions' = r.account.transactions
        /\ next_id' = r.account.next_id
        /\ result' = Call("update_transaction",
                          Args(id, date, amount, category, description), r.raised,
                          NoTransaction)
        /\ UNCHANGED <<adds, deleted, csv, monthly_budgets,
                     limits, adding>>

\* service.delete_transaction(id)
DeleteTransaction(id) ==
    LET r == delete_transaction(account, id)
    IN  /\ csv.pc # "loop"
        /\ transactions' = r.account.transactions
        /\ next_id' = r.account.next_id
        /\ result' = Call("delete_transaction", Args(id, None, None, None, None),
                          r.raised, NoTransaction)
        /\ deleted' = IF r.raised = NoException THEN deleted \cup {id} ELSE deleted
        /\ UNCHANGED <<adds, csv, monthly_budgets,
                     limits, adding>>

Next ==
    \/ \E date \in NewDates, amount \in NewAmounts, category \in NewCategories,
          description \in NewDescriptions :
          CreateTransaction(date, amount, category, description)
    \/ \E transaction \in SavedObjects : Save(transaction)
    \/ \E id \in Ids, date \in UpdDates, amount \in UpdAmounts,
          category \in UpdCategories, description \in UpdDescriptions :
          UpdateTransaction(id, date, amount, category, description)
    \/ \E id \in Ids : DeleteTransaction(id)

Spec == Init /\ [][Next]_vars

(***************************************************************************)
(* Properties of the account under add, update and delete (Spec).          *)
(***************************************************************************)
LiveIds == {transactions[i].id : i \in 1..Len(transactions)}

IsAdd(call) == call.op \in {"create_transaction", "save"} /\ ~Raised(call)

C2_KthAddGetsIdK ==
    /\ [](next_id = adds + 1)
    /\ [][adds' # adds =>
            /\ adds' = adds + 1
            /\ Len(transactions') = Len(transactions) + 1
            /\ transactions'[Len(transactions')].id = adds'
            /\ result'.ret.id = adds'
            /\ SubSeq(transactions', 1, Len(transactions)) = transactions]_vars

\* the third add, made after a delete and an update
C2_Witness ==
    /\ adds = 3 /\ IsAdd(result) /\ result.ret.id = 3
    /\ deleted # {}
    /\ \E i \in 1..Len(transactions) : transactions[i].amount = PyFloat(0)

\* C3: once the transaction with id i has been deleted no later add assigns i
\* again: next_id never decreases, and get_transaction_by_id(i) finds nothing
\* in every later state.
C3_DeletedIdNeverReused ==
    /\ [](\A i \in deleted : get_transaction_by_id(account, i) = NoTransaction)
    /\ [][next_id' >= next_id]_vars
    /\ [][IsAdd(result') /\ adds' # adds => result'.ret.id \notin deleted]_vars

\* an add made after id 1 was deleted
C3_Witness ==
    /\ 1 \in deleted
    /\ IsAdd(result) /\ result.ret.id > 1
    /\ get_transaction_by_id(account, 1) = NoTransaction

\* the sum of the amounts in the collection, taken position by position
RECURSIVE SumOfAmountsAt(_)
SumOfAmountsAt(positions) ==
    IF positions = {} THEN 0
    ELSE LET i == CHOOSE p \in positions : TRUE
         IN  transactions[i].amount.num + SumOfAmountsAt(positions \ {i})

\* the amount held by the transaction with this id, in the current state
AmountOf(id) == get_transaction_by_id(account, id).amount.num

\* C4: the balance is the sum of the amounts currently in the account (0 when
\* it is empty); a successful delete lowers it by the deleted transaction's
\* amount and a successful update of an amount from a to b changes it by b - a.
C4_BalanceIsSumOfAmounts ==
    /\ [](get_balance(account) = SumOfAmountsAt(1..Len(transactions)))
    /\ [](transactions = <<>> => get_balance(account) = 0)
    /\ [][result'.op = "delete_transaction" /\ ~Raised(result') =>
            get_balance(account)' = get_balance(account) - AmountOf(result'.args.id)]_vars
    /\ [][/\ result'.op = "update_transaction" /\ ~Raised(result')
          /\ result'.args.amount # None
          => get_balance(account)' =
                get_balance(account)
                    + (result'.args.amount.num - AmountOf(result'.args.id))]_vars

\* an amount was updated from -5 to 0 next to another transaction
C4_Witness ==
    /\ result.op = "update_transaction" /\ ~Raised(result)
    /\ result.args.amount = PyFloat(0)
    /\ Len(transactions) = 2
    /\ get_balance(account) = 10

InHalfOpenWindow(date, year, month) ==
    /\ DateLE(start_month(year, month), date)
    /\ ~DateLE(end_month(year, month), date)

HalfOpenWindowTransactions(year, month) ==
    SelectSeq(transactions, LAMBDA t : InHalfOpenWindow(t.date, year, month))

\* the months the aggregations are asked for
Months == {<<2023, 12>>, <<2024, 1>>}

\* the day the aggregations run on when no month is given
Today == Dec31

\* C5: for every year and month the three monthly aggregations take exactly
\* the transactions dated in [first day of the month, first day of the next
\* month): one dated on the 1st of the following month contributes nothing.
C5_AggregatesUseHalfOpenWindow ==
    \A ym \in Months :
        LET year  == PyInt(ym[1])
            month == PyInt(ym[2])
            inside == HalfOpenWindowTransactions(ym[1], ym[2])
        IN  /\ get_monthly_spending(account, year, month, Today).ret
                   = SumSpending(inside)
            /\ get_monthly_income(account, year, month, Today).ret
                   = SumIncome(inside)
            /\ get_category_totals(account, year, month, Today).ret
                   = CategoryTotalsLoop(inside, <<>>)

(***************************************************************************)
(* One call of update_transaction on every account that adds and deletes   *)
(* lead to (SpecUpdate).  The accounts are built with add_transaction and  *)
(* delete_transaction from every choice of valid transactions.             *)
(***************************************************************************)
ValidDates == {Dec31, Jan01}

ValidAmounts == {PyFloat(-5), PyFloat(0)}

ValidCategories == {PyStr(Income), PyStr(Food)}

ValidDescriptions == {PyStr(Note), PyStr(<<>>)}

\* the Transaction objects a caller can construct
Constructed ==
    {Transaction(d, a, c, s).ret :
        d \in ValidDates, a \in ValidAmounts, c \in ValidCategories,
        s \in ValidDescriptions}

RECURSIVE AddAll(_, _)
AddAll(acct, objects) ==
    IF objects = <<>> THEN acct
    ELSE AddAll(add_transaction(acct, Head(objects)).account, Tail(objects))

RECURSIVE DeleteAll(_, _)
DeleteAll(acct, ids) ==
    IF ids = {} THEN acct
    ELSE LET id == CHOOSE x \in ids : TRUE
         IN  DeleteAll(delete_transaction(acct, id).account, ids \ {id})

\* the accounts reached by adding up to max of the given objects and deleting
\* any of them
Held(objects, max) ==
    \E n \in 0..max :
      \E added \in [1..n -> objects] :
        \E ids \in SUBSET (1..n) :
          LET acct == DeleteAll(AddAll(Account(<<>>, 1), added), ids)
          IN  /\ transactions = acct.transactions
              /\ next_id = acct.next_id
              /\ result = Call("init", NoArgs, NoException, NoTransaction)
              /\ adds = n
              /\ deleted = ids
              /\ csv = NoImport
              /\ monthly_budgets = <<>>
              /\ limits = NoLimits
              /\ adding = NoAdding

InitHeld == Held(Constructed, MaxHeld)

HeldIds == 1..(MaxHeld + 1)

AnyDates == {None, Jan01, PyStr(DateText)}

AnyAmounts == {None, PyFloat(0), PyStr(AmountText)}

AnyCategories == {None, PyStr(Food), PyStr(<<>>)}

AnyDescriptions == {None, PyStr(<<>>)}

NextUpdate ==
    \E id \in HeldIds, date \in AnyDates, amount \in AnyAmounts,
       category \in AnyCategories, description \in AnyDescriptions :
       /\ result.op = "init"
       /\ UpdateTransaction(id, date, amount, category, description)

SpecUpdate == InitHeld /\ [][NextUpdate]_vars

\* the value a field holds after a successful update
Updated(old, given) == IF given # None THEN given ELSE old

\* C9: update(id, fields) raises InvalidTransactionError when no transaction
\* has the id; when it succeeds every provided field (an amount of 0 and an
\* empty description included) has passed the construction rule and holds the
\* provided value, and every omitted field, the id and every other
\* transaction are as before.
C9_UpdateAppliesProvidedFieldsOnly ==
    [][result'.op = "update_transaction" =>
         LET a == result'.args
             i == IndexOfId(transactions, a.id, 1)
         IN  /\ a.id \notin LiveIds =>
                   /\ result'.raised.exc = "InvalidTransactionError"
                   /\ transactions' = transactions
                   /\ next_id' = next_id
             /\ ~Raised(result') =>
                   /\ i # 0
                   /\ next_id' = next_id
                   /\ Len(transactions') = Len(transactions)
                   /\ \A j \in 1..Len(transactions) :
                         j # i => transactions'[j] = transactions[j]
                   /\ transactions'[i].id = a.id
                   /\ transactions'[i].type = "Transaction"
                   /\ a.date # None => IsDate(a.date)
                   /\ a.amount # None => IsNumber(a.amount)
                   /\ a.category # None => IsCategory(a.category)
                   /\ transactions'[i].date = Updated(transactions[i].date, a.date)
                   /\ transactions'[i].amount = Updated(transactions[i].amount, a.amount)
                   /\ transactions'[i].category =
                         Updated(transactions[i].category, a.category)
                   /\ transactions'[i].description =
                         Updated(transactions[i].description, a.description)]_vars

\* a successful update to amount 0 and an empty description, the date and
\* the category omitted, with another transaction in the account
C9_Witness ==
    /\ result.op = "update_transaction" /\ ~Raised(result)
    /\ result.args.amount = PyFloat(0)
    /\ result.args.description = PyStr(<<>>)
    /\ result.args.date = None /\ result.args.category = None
    /\ Len(transactions) = 2
    /\ get_transaction_by_id(account, result.args.id).amount = PyFloat(0)
    /\ get_transaction_by_id(account, result.args.id).description = PyStr(<<>>)

(***************************************************************************)
(* transaction_service.py: import_transactions_from_csv.  The loop over    *)
(* the lines is taken one line at a step (SpecImport); while it runs no    *)
(* other call is made on the account.                                      *)
(***************************************************************************)
\* f"Line {i+1}: {e}"
ErrorMessage(i, e) == [line |-> i + 1, message |-> e]

\* one pass of the loop body that lets InvalidTransactionError escape
import_line_catches_ValueError(acct, st) ==
    With(parse_csv_line(st.lines[st.i + 1]), LAMBDA p :
        IF p.raised # NoException
        THEN [raised |-> NoException, account |-> acct,
              st |-> [st EXCEPT !.i = @ + 1,
                                !.errors = Append(@, ErrorMessage(st.i, p.raised))]]
        ELSE
    With(create_transaction(acct, p.date, p.amount, p.category, p.description),
         LAMBDA r :
        IF r.raised # NoException
        THEN [raised |-> r.raised, account |-> r.account, st |-> st]
        ELSE [raised |-> NoException, account |-> r.account,
              st |-> [st EXCEPT !.i = @ + 1, !.imported = @ + 1]]))

\* one pass of the loop body that gives up the batch at the first failure
import_line_aborts(acct, st) ==
    With(parse_csv_line(st.lines[st.i + 1]), LAMBDA p :
        IF p.raised # NoException
        THEN [raised |-> NoException, account |-> acct,
              st |-> [st EXCEPT !.i = Len(st.lines),
                                !.errors = Append(@, ErrorMessage(st.i, p.raised))]]
        ELSE
    With(create_transaction(acct, p.date, p.amount, p.category, p.description),
         LAMBDA r :
        IF r.raised # NoException
        THEN [raised |-> NoException, account |-> r.account,
              st |-> [st EXCEPT !.i = Len(st.lines),
                                !.errors = Append(@, ErrorMessage(st.i, r.raised))]]
        ELSE [raised |-> NoException, account |-> r.account,
              st |-> [st EXCEPT !.i = @ + 1, !.imported = @ + 1]]))

\* one pass of the loop body: try parse_csv_line and create_transaction,
\* except Exception: append the message
import_line(acct, st) ==
    With(parse_csv_line(st.lines[st.i + 1]), LAMBDA p :
        IF p.raised # NoException
        THEN [raised |-> NoException, account |-> acct,
              st |-> [st EXCEPT !.i = @ + 1,
                                !.errors = Append(@, ErrorMessage(st.i, p.raised))]]
        ELSE
    With(create_transaction(acct, p.date, p.amount, p.category, p.description),
         LAMBDA r :
        IF r.raised # NoException
        THEN [raised |-> NoException, account |-> r.account,
              st |-> [st EXCEPT !.i = @ + 1,
                                !.errors = Append(@, ErrorMessage(st.i, r.raised))]]
        ELSE [raised |-> NoException, account |-> r.account,
              st |-> [st EXCEPT !.i = @ + 1, !.imported = @ + 1]]))

\* the lines of the imported texts
LineIso ==
    <<"2", "0", "2", "3", "-", "1", "2", "-", "3", "1", ",", "-", "5", ",",
      "F", "o", "o", "d", ",", "x">>

LineUs ==
    <<"1", "/", "1", "/", "2", "0", "2", "4", ",", " ", "1", "0", ".", "5", "0",
      " ", ",", "I", "n", "c", "o", "m", "e">>

LineBadAmount ==
    <<"2", "0", "2", "3", "-", "1", "2", "-", "3", "1", ",", "a", "b", "c", ",",
      "F", "o", "o", "d">>

LineBlankCategory ==
    <<"2", "0", "2", "3", "-", "1", "2", "-", "3", "1", ",", "5", ",", " ", ",", "x">>

LineBadMonth ==
    <<"2", "0", "2", "3", "-", "1", "3", "-", "0", "1", ",", "5", ",",
      "F", "o", "o", "d">>

LineBlank == <<>>

Lines == {LineIso, LineUs, LineBadAmount, LineBlankCategory, LineBadMonth, LineBlank}

\* "\n".join(lines)
RECURSIVE Join(_)
Join(lines) ==
    IF lines = <<>> THEN <<>>
    ELSE IF Len(lines) = 1 THEN lines[1]
    ELSE lines[1] \o <<"\n">> \o Join(Tail(lines))

\* the uploaded texts: up to MaxLines lines, blank ones included
Texts == {Join(lines) : lines \in UNION {[1..n -> Lines] : n \in 0..MaxLines}}

\* service.import_transactions_from_csv(csv_content): up to the loop
ImportStart(csv_content) ==
    LET lines == splitlines(strip(csv_content))
    IN  /\ csv.pc # "loop"
        /\ csv' = [i |-> 0, pc |-> "loop", lines |-> lines, imported |-> 0,
                   errors |-> <<>>, first_id |-> next_id, held |-> transactions]
        /\ result' = Call("import_transactions_from_csv",
                          [csv_content |-> csv_content], NoException, NoTransaction)
        /\ UNCHANGED <<transactions, next_id, adds, deleted, monthly_budgets,
                     limits, adding>>

\* one pass of "for i, line in enumerate(lines)"
ImportLine ==
    /\ csv.pc = "loop"
    /\ csv.i < Len(csv.lines)
    /\ \E r \in {import_line(account, csv)} :
          /\ transactions' = r.account.transactions
          /\ next_id' = r.account.next_id
          /\ adds' = adds + (r.account.next_id - next_id)
          /\ IF r.raised # NoException
             THEN /\ csv' = [r.st EXCEPT !.pc = "raised"]
                  /\ result' = [result EXCEPT !.raised = r.raised]
             ELSE /\ csv' = r.st
                  /\ UNCHANGED result
    /\ UNCHANGED <<deleted, monthly_budgets,
                     limits, adding>>

\* "return imported, errors"
ImportReturn ==
    /\ csv.pc = "loop"
    /\ csv.i = Len(csv.lines)
    /\ csv' = [csv EXCEPT !.pc = "returned"]
    /\ UNCHANGED <<transactions, next_id, result, adds, deleted, monthly_budgets,
                     limits, adding>>

\* the Transaction objects the valid lines are imported as
Imported ==
    {With(parse_csv_line(line), LAMBDA p :
          Transaction(p.date, p.amount, p.category, p.description).ret) :
        line \in {LineIso, LineUs}}

InitImport == Held(Imported, MaxBefore)

NextImport ==
    \/ \E csv_content \in Texts : result.op = "init" /\ ImportStart(csv_content)
    \/ ImportLine
    \/ ImportReturn

SpecImport == InitImport /\ [][NextImport]_vars

(***************************************************************************)
(* Properties of the import (SpecImport).                                  *)
(***************************************************************************)
\* each line on its own: what the parser makes of it, and the exception it
\* fails with, that of the parser or that of the Transaction constructor on
\* the parsed fields (NoException if neither raises)
Parsed == [line \in Lines |-> parse_csv_line(line)]

LineFailure ==
    [line \in Lines |->
        With(Parsed[line], LAMBDA p :
            IF p.raised # NoException THEN p.raised
            ELSE Transaction(p.date, p.amount, p.category, p.description).raised)]

\* the positions, among the first n lines, of the lines that fail
FailingLines(n) == {k \in 1..n : LineFailure[csv.lines[k]] # NoException}

\* the import has started and no other call has been made since
Importing == csv.pc \in {"loop", "raised", "returned"}

\* C6: the import never raises: the lines are taken in order, each line that
\* fails to parse or to validate is recorded as "Line <1-based index>: "
\* followed by its message, the errors are in ascending line order, and the
\* imported count plus the number of errors is the number of lines processed.
C6_ImportCollectsErrorsPerLine ==
    Importing =>
        /\ csv.pc # "raised" /\ ~Raised(result)
        /\ csv.i \in 0..Len(csv.lines)
        /\ csv.pc = "returned" => csv.i = Len(csv.lines)
        /\ csv.imported + Len(csv.errors) = csv.i
        /\ {csv.errors[e].line : e \in 1..Len(csv.errors)} = FailingLines(csv.i)
        /\ \A e \in 1..Len(csv.errors) :
              /\ csv.errors[e].message = LineFailure[csv.lines[csv.errors[e].line]]
              /\ \A f \in 1..Len(csv.errors) :
                    e < f => csv.errors[e].line < csv.errors[f].line

\* an import returned with a parse failure on line 1 and a validation
\* failure on line 3, line 2 imported
C6_Witness ==
    /\ csv.pc = "returned"
    /\ csv.lines = <<LineBadAmount, LineUs, LineBlankCategory>>
    /\ csv.imported = 1
    /\ Len(csv.errors) = 2
    /\ csv.errors[1].line = 1 /\ csv.errors[1].message.exc = "ValueError"
    /\ csv.errors[2].line = 3
    /\ csv.errors[2].message.exc = "InvalidTransactionError"

\* the lines, among the first n, that do not fail, in line order
RECURSIVE GoodLines(_)
GoodLines(n) ==
    IF n = 0 THEN <<>>
    ELSE IF LineFailure[csv.lines[n]] # NoException THEN GoodLines(n - 1)
    ELSE Append(GoodLines(n - 1), csv.lines[n])

\* C7: a failing line adds no transaction and takes no id: the account holds
\* exactly imported-count more transactions than before the import, and their
\* ids are next_id-before, next_id-before + 1, ... in line order.
C7_FailingLineTakesNoId ==
    Importing =>
        /\ Len(transactions) = Len(csv.held) + csv.imported
        /\ next_id = csv.first_id + csv.imported
        /\ SubSeq(transactions, 1, Len(csv.held)) = csv.held
        /\ Len(GoodLines(csv.i)) = csv.imported
        /\ \A k \in 1..csv.imported :
              LET t == transactions[Len(csv.held) + k]
                  p == Parsed[GoodLines(csv.i)[k]]
              IN  /\ t.id = csv.first_id + k - 1
                  /\ t.date = p.date /\ t.amount = p.amount
                  /\ t.category = p.category /\ t.description = p.description

\* the three-line text whose second line is malformed, imported into a new
\* account: two transactions, ids 1 and 2, one error for line 2
C7_Witness ==
    /\ csv.pc = "returned"
    /\ csv.lines = <<LineIso, LineBadAmount, LineUs>>
    /\ csv.held = <<>> /\ csv.first_id = 1
    /\ csv.imported = 2
    /\ Len(csv.errors) = 1 /\ csv.errors[1].line = 2
    /\ Len(transactions) = 2
    /\ transactions[1].id = 1 /\ transactions[2].id = 2
    /\ next_id = 3

\* C8: the import is not atomic: a failure on line k leaves the transactions
\* imported from the lines before k in the account as they are, and the lines
\* after k are still processed and imported when they are valid.
C8_FailureKeepsEarlierAndLaterLines ==
    /\ [][csv.pc = "loop" /\ Len(csv'.errors) > Len(csv.errors) =>
            /\ transactions' = transactions
            /\ next_id' = next_id
            /\ csv'.pc = "loop"
            /\ csv'.i = csv.i + 1
            /\ csv'.lines = csv.lines]_vars
    /\ [][csv.pc = "loop" /\ csv'.imported > csv.imported =>
            /\ SubSeq(transactions', 1, Len(transactions)) = transactions
            /\ Len(transactions') = Len(transactions) + 1]_vars
    /\ [](csv.pc = "returned" =>
            csv.imported = Len(csv.lines) - Cardinality(FailingLines(Len(csv.lines))))

\* line 1 imported, line 2 failed, line 3 imported after the failure, next
\* to a transaction held before the import
C8_Witness ==
    /\ csv.pc = "returned"
    /\ csv.lines = <<LineUs, LineBlankCategory, LineIso>>
    /\ Len(csv.held) = 1
    /\ Len(csv.errors) = 1 /\ csv.errors[1].line = 2
    /\ Len(transactions) = 3
    /\ transactions[2].category = PyStr(Income)
    /\ transactions[3].category = PyStr(Food)

(***************************************************************************)
(* The Budget on its own (SpecBudget): set_budget, get_budget and          *)
(* get_remaining in any order and number.                                  *)
(***************************************************************************)
\* the argument values of set_budget and get_remaining
BudgetAmounts == {PyFloat(-10), PyFloat(0), PyFloat(3), PyInt(5), PyStr(AmountText)}

SpentAmounts == {PyFloat(0), PyFloat(2), PyFloat(7)}

\* budget.set_budget(category, amount); it returns None
SetBudget(category, amount) ==
    \E r \in {set_budget(monthly_budgets, category, amount)} :
       /\ monthly_budgets' = r.budget
       /\ result' = Call("set_budget", Args(0, None, amount, category, None),
                         r.raised, None)
       /\ limits' = IF r.raised # NoException THEN limits
                    ELSE [limits EXCEPT ![category.str] =
                             [amount |-> amount.num, set |-> TRUE,
                              overwritten |-> @.set /\ @.amount # amount.num]]
       /\ UNCHANGED <<transactions, next_id, adds, deleted, csv, adding>>

\* budget.get_budget(category)
GetBudget(category) ==
    /\ result' = Call("get_budget", Args(0, None, None, category, None),
                      NoException, PyFloat(get_budget(monthly_budgets, category)))
    /\ UNCHANGED <<transactions, next_id, adds, deleted, csv, monthly_budgets,
                   limits, adding>>

\* budget.get_remaining(category, spent)
GetRemaining(category, spent) ==
    /\ result' = Call("get_remaining", Args(0, None, spent, category, None),
                      NoException,
                      PyFloat(get_remaining(monthly_budgets, category, spent)))
    /\ UNCHANGED <<transactions, next_id, adds, deleted, csv, monthly_budgets,
                   limits, adding>>

NextBudget ==
    \/ \E c \in BudgetCategories, amount \in BudgetAmounts : SetBudget(PyStr(c), amount)
    \/ \E c \in BudgetCategories : GetBudget(PyStr(c))
    \/ \E c \in BudgetCategories, spent \in SpentAmounts : GetRemaining(PyStr(c), spent)

SpecBudget == Init /\ [][NextBudget]_vars

\* the limit of a category by the history of the set_budget calls
LastLimit(c) == IF limits[c].set THEN limits[c].amount ELSE 0

\* C17: set_budget(category, amount) with amount < 0 fails and leaves the map
\* as it was; with amount >= 0 it stores the amount under the category and
\* changes no other entry; no stored limit is ever negative.
C17_SetBudgetRejectsNegative ==
    /\ [](\A i \in 1..Len(monthly_budgets) : monthly_budgets[i].value >= 0)
    /\ [][result'.op = "set_budget" /\ IsNumber(result'.args.amount) =>
            LET c == result'.args.category.str
                amount == result'.args.amount.num
            IN  IF amount < 0
                THEN /\ Raised(result')
                     /\ monthly_budgets' = monthly_budgets
                ELSE /\ ~Raised(result')
                     /\ Cardinality({i \in 1..Len(monthly_budgets') :
                                        monthly_budgets'[i].key = c}) = 1
                     /\ \A i \in 1..Len(monthly_budgets') :
                           monthly_budgets'[i].key = c =>
                               monthly_budgets'[i].value = amount
                     /\ \A k \in BudgetCategories \ {c} :
                           /\ k \in DictKeys(monthly_budgets')
                                 <=> k \in DictKeys(monthly_budgets)
                           /\ DictGet(monthly_budgets', k, 0)
                                 = DictGet(monthly_budgets, k, 0)]_vars

\* a negative limit was refused while another category holds a limit
C17_Witness ==
    /\ result.op = "set_budget"
    /\ result.args.amount = PyFloat(-10)
    /\ Raised(result)
    /\ Len(monthly_budgets) = 2
    /\ \E c \in BudgetCategories : limits[c].overwritten

\* C18: get_budget(category) returns the limit last set for the category, 0
\* when none was set; get_remaining(category, spent) returns that limit minus
\* spent, which may be negative; neither changes the map.
C18_GetBudgetAndRemaining ==
    [][/\ result'.op = "get_budget" =>
            /\ ~Raised(result')
            /\ result'.ret.num = LastLimit(result'.args.category.str)
            /\ monthly_budgets' = monthly_budgets
       /\ result'.op = "get_remaining" =>
            /\ ~Raised(result')
            /\ result'.ret.num = LastLimit(result'.args.category.str)
                                    - result'.args.amount.num
            /\ monthly_budgets' = monthly_budgets]_vars

\* more was spent than the limit that replaced an earlier one
C18_Witness ==
    /\ result.op = "get_remaining"
    /\ limits[result.args.category.str].overwritten
    /\ limits[result.args.category.str].amount > 0
    /\ result.ret.num < 0

(***************************************************************************)
(* The queries of the account and the service (SpecQuery): one query, with *)
(* every choice of arguments, on every account built from transactions of  *)
(* either sign dated on the last day of a month and the first of the next. *)
(* A budget may be set before get_budget_status is asked.                  *)
(***************************************************************************)
QueriedAmounts == {PyFloat(-5), PyFloat(0), PyFloat(5)}

Queried ==
    {Transaction(d, a, c, PyStr(<<>>)).ret :
        d \in ValidDates, a \in QueriedAmounts, c \in ValidCategories}

InitQuery == Held(Queried, MaxHeld)

\* the argument values of the queries; None is an omitted argument
QueryDates == {None, Dec31, Jan01}

QueryCategories == {None, PyStr(<<>>), PyStr(Food), PyStr(Income)}

QueryMonths ==
    {<<None, None>>, <<PyInt(2023), PyInt(12)>>, <<PyInt(2024), PyInt(1)>>}

\* the limit set before get_budget_status is asked
StatusLimits == {PyFloat(3)}

\* the budget the Service was constructed with: None, or the Budget object
ServiceBudgets == {None, BudgetObject(monthly_budgets)}

QueryArgs(start_date, end_date, category, year, month, budget) ==
    [year |-> year, month |-> month, category |-> category,
     start_date |-> start_date, end_date |-> end_date, budget |-> budget]

PyList(items) == [type |-> "list", items |-> items]

PyDict(items) == [type |-> "dict", items |-> items]

\* a query changes nothing but the record of the last call
Query(op, args, r) ==
    /\ result' = Call(op, args, r.raised, r.ret)
    /\ UNCHANGED <<transactions, next_id, adds, deleted, csv, monthly_budgets,
                   limits, adding>>

\* account.list_transactions(start_date, end_date, category)
ListTransactions(start_date, end_date, category) ==
    Query("list_transactions",
          QueryArgs(start_date, end_date, category, None, None, None),
          [raised |-> NoException,
           ret |-> PyList(list_transactions(account, start_date, end_date, category))])

\* service.get_monthly_spending(year, month)
GetMonthlySpending(year, month) ==
    \E r \in {get_monthly_spending(account, year, month, Today)} :
       Query("get_monthly_spending", QueryArgs(None, None, None, year, month, None),
             [raised |-> r.raised, ret |-> PyFloat(r.ret)])

\* service.get_monthly_income(year, month)
GetMonthlyIncome(year, month) ==
    \E r \in {get_monthly_income(account, year, month, Today)} :
       Query("get_monthly_income", QueryArgs(None, None, None, year, month, None),
             [raised |-> r.raised, ret |-> PyFloat(r.ret)])

\* service.get_category_totals(year, month)
GetCategoryTotals(year, month) ==
    \E r \in {get_category_totals(account, year, month, Today)} :
       Query("get_category_totals", QueryArgs(None, None, None, year, month, None),
             [raised |-> r.raised, ret |-> PyDict(r.ret)])

\* service.get_category_spending(year, month)
GetCategorySpending(year, month) ==
    \E r \in {get_category_spending(account, year, month, Today)} :
       Query("get_category_spending", QueryArgs(None, None, None, year, month, None),
             [raised |-> r.raised, ret |-> PyDict(r.ret)])

\* service.get_budget_status(category)
GetBudgetStatus(budget, category) ==
    Query("get_budget_status", QueryArgs(None, None, category, None, None, budget),
          get_budget_status(account, budget, category, Today))

NextQuery ==
    \/ \E start_date \in QueryDates, end_date \in QueryDates,
          category \in QueryCategories :
          result.op = "init" /\ ListTransactions(start_date, end_date, category)
    \/ \E ym \in QueryMonths : result.op = "init" /\ GetMonthlySpending(ym[1], ym[2])
    \/ \E ym \in QueryMonths : result.op = "init" /\ GetMonthlyIncome(ym[1], ym[2])
    \/ \E ym \in QueryMonths : result.op = "init" /\ GetCategoryTotals(ym[1], ym[2])
    \/ \E ym \in QueryMonths : result.op = "init" /\ GetCategorySpending(ym[1], ym[2])
    \/ \E c \in BudgetCategories, amount \in StatusLimits :
          result.op \in {"init", "set_budget"} /\ SetBudget(PyStr(c), amount)
    \/ \E budget \in ServiceBudgets, c \in BudgetCategories :
          result.op \in {"init", "set_budget"} /\ GetBudgetStatus(budget, PyStr(c))

SpecQuery == InitQuery /\ [][NextQuery]_vars

\* the year and month a query is about: the given ones, or today's
QueryYear == IF result.args.year = None THEN Today.year ELSE result.args.year.num

QueryMonth == IF result.args.month = None THEN Today.month ELSE result.args.month.num

\* the positions of the transactions dated in the month window
\* [first of the month, first of the next month)
InWindow(year, month) ==
    {i \in 1..Len(transactions) : InHalfOpenWindow(transactions[i].date, year, month)}

\* the sum of the values of a function
RECURSIVE SumFunction(_)
SumFunction(f) ==
    IF DOMAIN f = {} THEN 0
    ELSE LET i == CHOOSE x \in DOMAIN f : TRUE
         IN  f[i] + SumFunction([j \in DOMAIN f \ {i} |-> f[j]])

\* C13: get_monthly_spending(year, month) is the sum of the absolute values of
\* the negative amounts dated in the month window, get_monthly_income the sum
\* of the positive amounts there; an amount of zero adds to neither.
C13_SpendingAndIncomeSums ==
    /\ result.op = "get_monthly_spending" =>
          result.ret.num =
              SumFunction([i \in InWindow(QueryYear, QueryMonth) |->
                              IF transactions[i].amount.num < 0
                              THEN 0 - transactions[i].amount.num ELSE 0])
    /\ result.op = "get_monthly_income" =>
          result.ret.num =
              SumFunction([i \in InWindow(QueryYear, QueryMonth) |->
                              IF transactions[i].amount.num > 0
                              THEN transactions[i].amount.num ELSE 0])

\* the positions, among the given ones, of the transactions of a category
OfCategory(positions, c) == {i \in positions : transactions[i].category.str = c}

\* C14: get_category_totals(year, month) returns a mapping whose keys are the
\* categories with at least one transaction dated in the month window, each
\* once, and whose values are the signed sums of their amounts in the window.
C14_CategoryTotalsOverWindow ==
    result.op = "get_category_totals" =>
        LET items == result.ret.items
            inside == InWindow(QueryYear, QueryMonth)
        IN  /\ {items[k].key : k \in 1..Len(items)}
                  = {transactions[i].category.str : i \in inside}
            /\ \A k, l \in 1..Len(items) : items[k].key = items[l].key => k = l
            /\ \A k \in 1..Len(items) :
                  items[k].value =
                      SumFunction([i \in OfCategory(inside, items[k].key) |->
                                      transactions[i].amount.num])

\* the mapping get_category_totals returns for the month of the last query
TotalsOfQuery ==
    get_category_totals(account, result.args.year, result.args.month, Today).ret

\* C15: get_category_spending(year, month) holds exactly the categories whose
\* total in get_category_totals for the same month is below zero, each once,
\* with that total's magnitude; a category whose total is zero or above is
\* absent.
C15_CategorySpendingFromTotals ==
    result.op = "get_category_spending" =>
        LET items == result.ret.items
        IN  /\ {items[k].key : k \in 1..Len(items)}
                  = {TotalsOfQuery[k].key : k \in {j \in 1..Len(TotalsOfQuery) :
                                                      TotalsOfQuery[j].value < 0}}
            /\ \A k, l \in 1..Len(items) : items[k].key = items[l].key => k = l
            /\ \A k \in 1..Len(items) :
                  /\ items[k].value > 0
                  /\ \E j \in 1..Len(TotalsOfQuery) :
                        /\ TotalsOfQuery[j].key = items[k].key
                        /\ TotalsOfQuery[j].value = 0 - items[k].value

\* one category was spent on and is reported, the other earned and is not
C15_Witness ==
    /\ result.op = "get_category_spending"
    /\ result.ret.items = <<[key |-> Food, value |-> 5]>>
    /\ \E j \in 1..Len(TotalsOfQuery) :
          TotalsOfQuery[j].key = Income /\ TotalsOfQuery[j].value > 0

\* the signed sum of a category's amounts dated in the current month
CurrentNet(c) ==
    SumFunction([i \in OfCategory(InWindow(Today.year, Today.month), c) |->
                    transactions[i].amount.num])

\* C12: with a budget attached, get_budget_status(category) returns budget =
\* the category's limit (0 if unset), spent = the magnitude of the category's
\* current-month net when that net is negative and 0 otherwise, and
\* remaining = budget - spent.
C12_BudgetStatusFields ==
    (result.op = "get_budget_status" /\ result.args.budget # None) =>
        LET c == result.args.category.str
            spent == IF CurrentNet(c) < 0 THEN 0 - CurrentNet(c) ELSE 0
        IN  /\ result.ret.budget = LastLimit(c)
            /\ result.ret.spent = spent
            /\ result.ret.remaining = LastLimit(c) - spent

\* what the filters of the last list_transactions call let through: a filter
\* that is not given (None) lets everything through
Selected(t) ==
    /\ result.args.start_date # None => DateLE(result.args.start_date, t.date)
    /\ result.args.end_date # None => DateLE(t.date, result.args.end_date)
    /\ result.args.category # None => t.category = result.args.category

\* C16: list_transactions(start_date, end_date, category) returns, in
\* insertion order, exactly the transactions with date >= start_date (if
\* given), date <= end_date (if given) and category equal to the given value
\* (if given); with no filter it returns every transaction; the account is
\* never modified.
C16_ListFiltersCombined ==
    /\ [](result.op = "list_transactions" =>
             result.ret.items = SelectSeq(transactions, Selected))
    /\ [][result'.op = "list_transactions" =>
             UNCHANGED <<transactions, next_id>>]_vars

(***************************************************************************)
(* The repository's update and delete (SpecRepository): one call, with     *)
(* every choice of arguments, on every account InitHeld builds.            *)
(***************************************************************************)
\* repository.update(transaction_id, date=..., amount=..., category=..., description=...)
RepositoryUpdate(transaction_id, date, amount, category, description) ==
    \E r \in {update(account, transaction_id, date, amount, category, description)} :
       /\ transactions' = r.account.transactions
       /\ next_id' = r.account.next_id
       /\ result' = Call("update",
                         Args(transaction_id, date, amount, category, description),
                         r.raised, r.ret)
       /\ UNCHANGED <<adds, deleted, csv, monthly_budgets, limits, adding>>

\* repository.delete(transaction_id)
RepositoryDelete(transaction_id) ==
    \E r \in {delete(account, transaction_id)} :
       /\ transactions' = r.account.transactions
       /\ next_id' = r.account.next_id
       /\ result' = Call("delete", Args(transaction_id, None, None, None, None),
                         r.raised, r.ret)
       /\ deleted' = IF r.ret = PyBool(TRUE) THEN deleted \cup {transaction_id}
                     ELSE deleted
       /\ UNCHANGED <<adds, csv, monthly_budgets, limits, adding>>

NextRepository ==
    \/ \E id \in HeldIds, date \in AnyDates, amount \in AnyAmounts,
          category \in AnyCategories, description \in AnyDescriptions :
          /\ result.op = "init"
          /\ RepositoryUpdate(id, date, amount, category, description)
    \/ \E id \in HeldIds :
          /\ result.op = "init"
          /\ RepositoryDelete(id)

SpecRepository == InitHeld /\ [][NextRepository]_vars

\* a field of an update is acceptable when it is omitted or passes the rule
\* of the constructor
AcceptableUpdate(a) ==
    /\ a.date = None \/ a.date.type = "date"
    /\ a.amount = None \/ a.amount.type \in {"int", "bool", "float"}
    /\ a.category = None \/ (a.category.type = "str" /\ Len(a.category.str) > 0)

\* C11: repository.update and repository.delete raise nothing: update returns
\* True when the id is held and every provided field is valid and False
\* otherwise; delete returns True when the id is held, and then the
\* transaction is gone, and False otherwise, and then nothing has changed.
C11_RepositoryReturnsBooleans ==
    [][LET held == \E i \in 1..Len(transactions) :
                      transactions[i].id = result'.args.id
       IN  /\ result'.op = "update" =>
                /\ ~Raised(result')
                /\ result'.ret = IF held /\ AcceptableUpdate(result'.args)
                                 THEN PyBool(TRUE) ELSE PyBool(FALSE)
                /\ ~held => transactions' = transactions
           /\ result'.op = "delete" =>
                /\ ~Raised(result')
                /\ result'.ret = IF held THEN PyBool(TRUE) ELSE PyBool(FALSE)
                /\ IF held
                   THEN /\ Len(transactions') = Len(transactions) - 1
                        /\ \A i \in 1..Len(transactions') :
                              transactions'[i].id # result'.args.id
                   ELSE transactions' = transactions]_vars

\* delete returned False for an id that was deleted earlier
C11_Witness ==
    /\ result.op = "delete"
    /\ result.ret = PyBool(FALSE)
    /\ result.args.id \in deleted
    /\ Len(transactions) = 1

(***************************************************************************)
(* create_transaction among the other calls on the account (Spec).         *)
(***************************************************************************)
\* C19: create_transaction with valid fields appends one transaction that
\* carries the next id and returns it; with an invalid date, amount or
\* category it raises InvalidTransactionError and leaves the collection and
\* next_id as they were.
C19_CreateAppendsOrRaises ==
    [][result'.op = "create_transaction" =>
          LET a == result'.args
              created == [type |-> "Transaction", id |-> next_id, date |-> a.date,
                          amount |-> a.amount, category |-> a.category,
                          description |-> a.description]
          IN  IF /\ a.date.type = "date"
                 /\ a.amount.type \in {"int", "bool", "float"}
                 /\ a.category.type = "str" /\ Len(a.category.str) > 0
              THEN /\ ~Raised(result')
                   /\ transactions' = Append(transactions, created)
                   /\ next_id' = next_id + 1
                   /\ result'.ret = created
              ELSE /\ result'.raised.exc = "InvalidTransactionError"
                   /\ transactions' = transactions
                   /\ next_id' = next_id]_vars

\* an invalid category was refused by an account that holds a transaction
\* created before it
C19_Witness ==
    /\ result.op = "create_transaction"
    /\ result.args.date = Dec31
    /\ result.args.category = PyStr(<<>>)
    /\ Raised(result)
    /\ \E i \in 1..Len(transactions) :
          transactions[i].category = PyStr(Income) /\ transactions[i].id = next_id - 1

(***************************************************************************)
(* Transaction construction on its own (SpecTransaction): one constructor  *)
(* call after another, on arguments of every type.                         *)
(***************************************************************************)
ConstructDates == {None, Dec31, PyInt(20231231), PyStr(DateText)}

ConstructAmounts == {None, PyFloat(-5), PyInt(0), PyBool(TRUE), PyStr(AmountText)}

ConstructCategories == {None, PyStr(Food), PyStr(<<>>), PyInt(7)}

ConstructDescriptions == {None, PyStr(<<>>), PyStr(Note)}

\* Transaction(date, amount, category, description)
Construct(date, amount, category, description) ==
    \E r \in {Transaction(date, amount, category, description)} :
       /\ result' = Call("Transaction", Args(0, date, amount, category, description),
                         r.raised, r.ret)
       /\ UNCHANGED <<transactions, next_id, adds, deleted, csv, monthly_budgets,
                      limits, adding>>

NextTransaction ==
    \E date \in ConstructDates, amount \in ConstructAmounts,
       category \in ConstructCategories, description \in ConstructDescriptions :
       Construct(date, amount, category, description)

SpecTransaction == Init /\ [][NextTransaction]_vars

\* the fields a transaction may hold: a calendar date, a number (an int, a
\* bool being one, or a float) and a text of at least one character
ValidFields(date, amount, category) ==
    /\ date.type = "date"
    /\ amount.type \in {"int", "bool", "float"}
    /\ category.type = "str" /\ Len(category.str) > 0

\* C20: constructing a Transaction succeeds exactly when the date is a
\* calendar date, the amount a number and the category a non-empty text; in
\* every other case it raises InvalidTransactionError and yields no object.
C20_ConstructionValidatesFields ==
    result.op = "Transaction" =>
        IF ValidFields(result.args.date, result.args.amount, result.args.category)
        THEN /\ ~Raised(result)
             /\ result.ret = [type |-> "Transaction", id |-> 0,
                              date |-> result.args.date,
                              amount |-> result.args.amount,
                              category |-> result.args.category,
                              description |-> result.args.description]
        ELSE /\ result.raised.exc = "InvalidTransactionError"
             /\ result.ret.type = "NoneType"

\* a category that is not a text was refused with the other fields valid
C20_Witness ==
    /\ result.op = "Transaction"
    /\ result.args.date = Dec31
    /\ result.args.amount = PyBool(TRUE)
    /\ result.args.category = PyInt(7)
    /\ result.raised = InvalidTransactionError("category must be a non-empty string")


(***************************************************************************)
(* The stored fields under update (SpecUpdate).                            *)
(***************************************************************************)
\* C21: every transaction held in the account has a calendar date, a numeric
\* amount and a non-empty text category, whatever adds, deletes and updates
\* (successful or failing) came before.
C21_StoredFieldsStayValid ==
    \A i \in 1..Len(transactions) :
       /\ transactions[i].type = "Transaction"
       /\ ValidFields(transactions[i].date, transactions[i].amount,
                      transactions[i].category)

\* an update of a live transaction was refused for its category after its
\* date had been accepted
C21_Witness ==
    /\ result.op = "update_transaction"
    /\ result.args.id \in LiveIds
    /\ result.args.date = Jan01
    /\ result.args.category = PyStr(<<>>)
    /\ result.raised = InvalidTransactionError("category must be a non-empty string")

\* C25: an update that raises InvalidTransactionError leaves the account as
\* it was before the call: no provided field is applied when another one of
\* the same call is refused.
C25_FailedUpdateChangesNothing ==
    [][(result'.op = "update_transaction" /\ Raised(result')) =>
          /\ result'.raised.exc = "InvalidTransactionError"
          /\ transactions' = transactions
          /\ next_id' = next_id]_vars


(***************************************************************************)
(* The order of the collection under add, update and delete (Spec).        *)
(***************************************************************************)
\* the ids of a collection, position by position
IdsInOrder(txns) == [j \in 1..Len(txns) |-> txns[j].id]

\* C29: the collection keeps insertion order: the ids, handed out in the
\* order of the adds, rise with the position; an add appends at the end, an
\* update leaves every transaction at its position with its id, and a delete
\* takes one position out and keeps the others in their order.
C29_InsertionOrderKept ==
    /\ [](\A i, j \in 1..Len(transactions) :
             i < j => transactions[i].id < transactions[j].id)
    /\ [][/\ (IsAdd(result') /\ ~Raised(result')) =>
               /\ Len(transactions') = Len(transactions) + 1
               /\ \A j \in 1..Len(transactions) : transactions'[j] = transactions[j]
          /\ result'.op = "update_transaction" =>
               IdsInOrder(transactions') = IdsInOrder(transactions)
          /\ (result'.op = "delete_transaction" /\ ~Raised(result')) =>
               \E i \in 1..Len(transactions) :
                  /\ transactions[i].id = result'.args.id
                  /\ Len(transactions') = Len(transactions) - 1
                  /\ \A j \in 1..Len(transactions') :
                        transactions'[j] = transactions[IF j < i THEN j ELSE j + 1]]_vars

\* the first of three transactions was deleted and the other two follow in
\* the order of their adds
C29_Witness ==
    /\ result.op = "delete_transaction" /\ ~Raised(result)
    /\ result.args.id = 1
    /\ IdsInOrder(transactions) = <<2, 3>>


(***************************************************************************)
(* Lookups by id (SpecFind): on every account InitHeld builds, lookups     *)
(* and deletes in any order.                                               *)
(***************************************************************************)
\* account.get_transaction_by_id(id), as repository.find_by_id calls it
GetTransactionById(id) ==
    /\ result' = Call("get_transaction_by_id", Args(id, None, None, None, None),
                      NoException, get_transaction_by_id(account, id))
    /\ UNCHANGED <<transactions, next_id, adds, deleted, csv, monthly_budgets,
                   limits, adding>>

NextFind ==
    \/ \E id \in HeldIds : GetTransactionById(id)
    \/ \E id \in HeldIds : DeleteTransaction(id)

SpecFind == InitHeld /\ [][NextFind]_vars

\* C22: get_transaction_by_id(id) returns the live transaction with the id,
\* or None when there is none, and changes nothing: the collection and
\* next_id are as before the call, and a second call right after the first
\* returns the same.
C22_FindByIdReadsOnly ==
    /\ [](result.op = "get_transaction_by_id" =>
             IF result.args.id \in LiveIds
             THEN /\ result.ret.type = "Transaction"
                  /\ result.ret.id = result.args.id
                  /\ \E i \in 1..Len(transactions) : transactions[i] = result.ret
             ELSE result.ret = NoTransaction)
    /\ [][result'.op = "get_transaction_by_id" =>
             /\ transactions' = transactions
             /\ next_id' = next_id
             /\ (result.op = "get_transaction_by_id"
                    /\ result.args.id = result'.args.id) => result'.ret = result.ret]_vars

\* id 2 was looked up and found at position 1, id 1 having been deleted
C22_Witness ==
    /\ result.op = "get_transaction_by_id"
    /\ result.args.id = 2
    /\ 1 \in deleted
    /\ Len(transactions) = 1
    /\ result.ret = transactions[1]
    /\ result.ret.id = 2


(***************************************************************************)
(* utils.py: parse_csv_line on its own (SpecParse): one call after         *)
(* another, on lines put together from every choice of fields.             *)
(***************************************************************************)
UsDateText == <<"1", "/", "1", "/", "2", "0", "2", "4">>

OffCalendarText == <<"2", "0", "2", "3", "-", "1", "3", "-", "0", "1">>

\* the texts of a date field, each with the date it denotes (None: none)
DateFieldTexts == {<<DateText, Dec31>>, <<UsDateText, Jan01>>, <<OffCalendarText, None>>}

\* the texts of an amount field, each with the number it denotes in
\* hundredths (None: not a number)
AmountFieldTexts ==
    {<<<<"-", "5">>, PyFloat(-500)>>,
     <<<<" ", "1", "0", ".", "5", "0", " ">>, PyFloat(1050)>>,
     <<<<"0", ".", "0", "5">>, PyFloat(5)>>,
     <<<<"a", "b", "c">>, None>>,
     <<<<"5", "x">>, None>>}

\* the texts of a category field, each with the category it denotes
CategoryFieldTexts == {<<Food, Food>>, <<<<" ">> \o Income \o <<" ">>, Income>>}

\* what follows the category: nothing, or a comma and the description
DescriptionTails == {<<>>, <<",">>, <<",">> \o Note, <<",", "a", ",", "b">>}

\* date,amount,category and the tail
FieldsLine(date, amount, category, tail) ==
    date \o <<",">> \o amount \o <<",">> \o category \o tail

\* the lines parsed: of three or four fields, of two and of one
ParsedLines ==
    {FieldsLine(d[1], a[1], c[1], tail) :
        d \in DateFieldTexts, a \in AmountFieldTexts, c \in CategoryFieldTexts,
        tail \in DescriptionTails}
    \cup {d[1] \o <<",">> \o a[1] : d \in DateFieldTexts, a \in AmountFieldTexts}
    \cup {d[1] : d \in DateFieldTexts}

\* parse_csv_line(line)
ParseCsvLine(line) ==
    \E r \in {parse_csv_line(line)} :
       /\ result' = Call("parse_csv_line", [line |-> line], r.raised,
                         [date |-> r.date, amount |-> r.amount,
                          category |-> r.category, description |-> r.description])
       /\ UNCHANGED <<transactions, next_id, adds, deleted, csv, monthly_budgets,
                      limits, adding>>

NextParse == \E line \in ParsedLines : ParseCsvLine(line)

SpecParse == Init /\ [][NextParse]_vars

\* the call failed with the parse error that carries the line
FailedOnLine ==
    /\ result.raised.exc = "ValueError"
    /\ result.raised.text = result.args.line

RECURSIVE CutAtNewlines(_, _)
CutAtNewlines(text, line) ==
    IF text = <<>> THEN <<line>>
    ELSE IF Head(text) = "\n" THEN <<line>> \o CutAtNewlines(Tail(text), <<>>)
    ELSE CutAtNewlines(Tail(text), Append(line, Head(text)))

\* a sequence of lines without its leading and its trailing blank lines
RECURSIVE WithoutOuterBlanks(_)
WithoutOuterBlanks(lines) ==
    IF lines = <<>> THEN <<>>
    ELSE IF Head(lines) = LineBlank THEN WithoutOuterBlanks(Tail(lines))
    ELSE IF lines[Len(lines)] = LineBlank
         THEN WithoutOuterBlanks(SubSeq(lines, 1, Len(lines) - 1))
    ELSE lines

\* C26: the import drops the leading and the trailing blank lines of the
\* text and no other line; a blank line between two others is processed
\* like any line: it is recorded as an error with its own 1-based index,
\* and the lines after it are counted from it on, so their errors carry
\* the index they have with the blank line counted.
C26_InnerBlankLineIsAnError ==
    Importing =>
        /\ csv.lines = WithoutOuterBlanks(CutAtNewlines(result.args.csv_content, <<>>))
        /\ \A k \in 1..csv.i :
              csv.lines[k] = LineBlank =>
                 \E e \in 1..Len(csv.errors) :
                    /\ csv.errors[e].line = k
                    /\ csv.errors[e].message.exc = "ValueError"
        /\ \A e \in 1..Len(csv.errors) :
              /\ csv.errors[e].line \in 1..csv.i
              /\ csv.errors[e].message.exc = "ValueError" =>
                    csv.errors[e].message = parse_csv_line(csv.lines[csv.errors[e].line]).raised

\* a text with a blank line between a good line and a bad one: the blank
\* line is the error of line 2, the bad line the error of line 3
C26_Witness ==
    /\ csv.pc = "returned"
    /\ result.args.csv_content = Join(<<LineIso, LineBlank, LineBadAmount>>)
    /\ csv.lines = <<LineIso, LineBlank, LineBadAmount>>
    /\ csv.imported = 1
    /\ Len(csv.errors) = 2
    /\ csv.errors[1].line = 2 /\ csv.errors[1].message.text = LineBlank
    /\ csv.errors[2].line = 3 /\ csv.errors[2].message.text = LineBadAmount


(***************************************************************************)
(* The month of the monthly aggregations (SpecWindow): one aggregation,    *)
(* with the year and the month given, omitted, or one of them given, on    *)
(* every account built from transactions dated in three different months.  *)
(***************************************************************************)
Mar01 == PyDate(2024, 3, 1)

WindowDates == {Dec31, Jan01, Mar01}

WindowAmounts == {PyFloat(-5), PyFloat(5)}

Windowed ==
    {Transaction(d, a, c, PyStr(<<>>)).ret :
        d \in WindowDates, a \in WindowAmounts, c \in ValidCategories}

InitWindow == Held(Windowed, MaxHeld)

\* the (year, month) arguments: both omitted, both given, one given
WindowMonths ==
    {<<None, None>>, <<PyInt(2023), PyInt(12)>>, <<PyInt(2024), PyInt(1)>>,
     <<PyInt(2024), None>>, <<None, PyInt(1)>>}

NextWindow ==
    \/ \E ym \in WindowMonths : result.op = "init" /\ GetMonthlySpending(ym[1], ym[2])
    \/ \E ym \in WindowMonths : result.op = "init" /\ GetMonthlyIncome(ym[1], ym[2])
    \/ \E ym \in WindowMonths : result.op = "init" /\ GetCategoryTotals(ym[1], ym[2])

SpecWindow == InitWindow /\ [][NextWindow]_vars

\* the last call was one of the three monthly aggregations
Aggregated ==
    result.op \in {"get_monthly_spending", "get_monthly_income", "get_category_totals"}

\* the first day of the month after (year, month)
FirstOfNextMonth(year, month) ==
    IF month = 12 THEN PyDate(year + 1, 1, 1) ELSE PyDate(year, month + 1, 1)

\* the positions of the transactions dated from the first day of the month
\* to the first day of the next month, both taken in as list_transactions
\* takes them
FromFirstToFirst(year, month) ==
    {i \in 1..Len(transactions) :
        /\ DateLE(PyDate(year, month, 1), transactions[i].date)
        /\ DateLE(transactions[i].date, FirstOfNextMonth(year, month))}

\* what the last aggregation returns when it is taken over these positions
AggregateOver(positions) ==
    CASE result.op = "get_monthly_spending" ->
           result.ret.num =
               SumFunction([i \in positions |->
                               IF transactions[i].amount.num < 0
                               THEN 0 - transactions[i].amount.num ELSE 0])
      [] result.op = "get_monthly_income" ->
           result.ret.num =
               SumFunction([i \in positions |->
                               IF transactions[i].amount.num > 0
                               THEN transactions[i].amount.num ELSE 0])
      [] result.op = "get_category_totals" ->
           /\ DictKeys(result.ret.items) =
                 {transactions[i].category.str : i \in positions}
           /\ \A c \in DictKeys(result.ret.items) :
                 DictGet(result.ret.items, c, 0) =
                     SumFunction([i \in OfCategory(positions, c) |->
                                     transactions[i].amount.num])

\* C27: with the year and the month given, every monthly aggregation is taken
\* over the dates from 1 December of the year to 1 January of the next year
\* when the month is 12, and from the 1st of the month to the 1st of the next
\* month of the same year otherwise.
C27_WindowRollsOverInDecember ==
    (Aggregated /\ result.args.year # None /\ result.args.month # None) =>
        /\ ~Raised(result)
        /\ AggregateOver(FromFirstToFirst(result.args.year.num, result.args.month.num))

\* the spending of December 2023 on an account with a spending on its last
\* day and another one in March 2024
C27_Witness ==
    /\ result.op = "get_monthly_spending"
    /\ result.args.year = PyInt(2023) /\ result.args.month = PyInt(12)
    /\ Len(transactions) = 2
    /\ transactions[1].date = Dec31 /\ transactions[1].amount = PyFloat(-5)
    /\ transactions[2].date = Mar01 /\ transactions[2].amount = PyFloat(-5)
    /\ result.ret = PyFloat(5)

\* the sum of the values of a mapping
SumValues(dict) == SumFunction([i \in 1..Len(dict) |-> dict[i].value])

\* the three aggregations of the account for the arguments of the last call
IncomeOfQuery ==
    get_monthly_income(account, result.args.year, result.args.month, Today).ret

SpendingOfQuery ==
    get_monthly_spending(account, result.args.year, result.args.month, Today).ret

RaceObjects ==
    {Transaction(Dec31, PyFloat(-5), c, PyStr(<<>>)).ret : c \in ValidCategories}

InitRace ==
    \E atomic \in BOOLEAN :
       /\ transactions = <<>>
       /\ next_id = 1
       /\ result = Call("init", NoArgs, NoException, NoTransaction)
       /\ adds = 0
       /\ deleted = {}
       /\ csv = NoImport
       /\ monthly_budgets = <<>>
       /\ limits = NoLimits
       /\ adding = [NoAdding EXCEPT !.atomic = atomic]

\* what a step of a thread leaves alone
RaceFrame == UNCHANGED <<result, deleted, csv, monthly_budgets, limits>>

\* account.add_transaction(transaction) under mutual exclusion: one step
AddAtomic(thread, transaction) ==
    \E r \in {add_transaction(account, transaction)} :
       /\ adding.atomic
       /\ next_id <= MaxAdds
       /\ transactions' = r.account.transactions
       /\ next_id' = r.account.next_id
       /\ adds' = adds + 1
       /\ UNCHANGED adding
       /\ RaceFrame

\* "transaction.id = self.next_id"
AssignId(thread, transaction) ==
    /\ ~adding.atomic
    /\ adding.pc[thread] = "idle"
    /\ adds + Cardinality({t \in Threads : adding.pc[t] # "idle"}) < MaxAdds
    /\ adding' = [adding EXCEPT !.pc[thread] = "assigned",
                                !.transaction[thread] =
                                    [transaction EXCEPT !.id = next_id]]
    /\ UNCHANGED <<transactions, next_id, adds>>
    /\ RaceFrame

\* "self.next_id += 1", the read of self.next_id
LoadNextId(thread) ==
    /\ adding.pc[thread] = "assigned"
    /\ adding' = [adding EXCEPT !.pc[thread] = "loaded", !.loaded[thread] = next_id]
    /\ UNCHANGED <<transactions, next_id, adds>>
    /\ RaceFrame

\* "self.next_id += 1", the write of self.next_id
StoreNextId(thread) ==
    /\ adding.pc[thread] = "loaded"
    /\ next_id' = adding.loaded[thread] + 1
    /\ adding' = [adding EXCEPT !.pc[thread] = "stored"]
    /\ UNCHANGED <<transactions, adds>>
    /\ RaceFrame

\* "self.transactions.append(transaction)"
AppendTransaction(thread) ==
    /\ adding.pc[thread] = "stored"
    /\ transactions' = Append(transactions, adding.transaction[thread])
    /\ adds' = adds + 1
    /\ adding' = [adding EXCEPT !.pc[thread] = "idle",
                                !.transaction[thread] = NoTransaction,
                                !.loaded[thread] = 0]
    /\ UNCHANGED next_id
    /\ RaceFrame

NextRace ==
    \/ \E thread \in Threads, transaction \in RaceObjects : AddAtomic(thread, transaction)
    \/ \E thread \in Threads, transaction \in RaceObjects : AssignId(thread, transaction)
    \/ \E thread \in Threads : LoadNextId(thread)
    \/ \E thread \in Threads : StoreNextId(thread)
    \/ \E thread \in Threads : AppendTransaction(thread)

SpecRace == InitRace /\ [][NextRace]_vars

\* two transactions of the collection have the same id
SharedId ==
    \E i, j \in 1..Len(transactions) : i # j /\ transactions[i].id = transactions[j].id

\* C24: when every add runs as one step no two transactions of the
\* collection ever share an id; when the steps of two adds on the same
\* account interleave, a collection in which two transactions share an id is
\* reachable (C24_Witness).
C24_AtomicAddsNeverShareAnId ==
    adding.atomic => ~SharedId

\* the two threads have added without mutual exclusion and both
\* transactions got id 1
C24_Witness ==
    /\ ~adding.atomic
    /\ \A t \in Threads : adding.pc[t] = "idle"
    /\ Len(transactions) = 2
    /\ transactions[1].id = 1 /\ transactions[2].id = 1

====
